---- MODULE Spec2Model ----
(***************************************************************************)
(* Turn operation engine of homeworlds-rust: the turn state               *)
(* (CurrentTurnState) and the operations applied to it through            *)
(* Apply::apply.  Every operation is one action; its return value is kept *)
(* in `result`.                                                           *)
(***************************************************************************)
EXTENDS Integers, Sequences, FiniteSets, TLC

VARIABLES
    player,                 \* CurrentTurnState.player
    bank,                   \* game_board.bank.pyramids : Pyramid -> NonZero<u8>
    homeworld_first,        \* game_board.homeworld_first
    homeworld_second,       \* game_board.homeworld_second
    discovered_systems,     \* game_board.discovered_systems : Vec<StarSystem>
    pending_powers,         \* CurrentTurnState.pending_powers
    current_turn_status,    \* CurrentTurnState.current_turn_status
    result,                 \* what the last apply returned
    ever_exhausted,         \* history: pending_powers has been Exhausted
    set_ok_count,           \* history: number of Set calls that returned Ok
    pp_calls,               \* history: the UpdatePendingPowers calls made so far
    streak,                 \* history: the run of equal UpdateBank calls in progress
    call,                   \* history: the operation the last apply was made on
    tally,                  \* history: successful AddOne and RemoveOne per ledger entry
    prior                   \* history: the call before the last, the boards before the last two

state == <<player, bank, homeworld_first, homeworld_second, discovered_systems,
           pending_powers, current_turn_status>>

history == <<ever_exhausted, set_ok_count, pp_calls, streak, call, tally, prior>>

vars == <<player, bank, homeworld_first, homeworld_second, discovered_systems,
          pending_powers, current_turn_status, result,
          ever_exhausted, set_ok_count, pp_calls, streak, call, tally, prior>>

----------------------------------------------------------------------------
(* Bounds of the model *)

\* ledger counts the callers of Spec build up to; in SpecLedger, the count
\* above which the callers keep at most one entry at a time
MaxCount == 1

\* largest count a Set arms
MaxSetCount == 2

\* successful Set calls after which the callers of Spec stop issuing Set
MaxSetOk == 2

\* UpdatePendingPowers calls in one behaviour of SpecPending
MaxCalls == 4

\* equal UpdateBank calls in one behaviour of SpecStreak
MaxStreak == 257

\* successful RemoveOne per ledger entry after which the callers of SpecTally
\* issue RemoveOne on it only when it is vacant
MaxRemoved == 1

\* calls in one behaviour of SpecPairs
MaxPairCalls == 2

----------------------------------------------------------------------------
(* Domain value types: public/common.rs, public/board.rs *)

U8Max == 255

Color == {"Green", "Yellow", "Red", "Blue"}

Size == {"Small", "Medium", "Large"}

Power == {"Build", "Move", "Captute", "Trade"}

Player == {"First", "Second"}

Pyramid == [color : Color, size : Size]

UpdateOneDelta == {"AddOne", "RemoveOne"}

BinaryStarId == {"Alpha", "Beta"}

CurrentTurnStatus == {"MakingActions", "Passing", "Resigning"}

\* StarSystemCenter
Empty == [tag |-> "Empty"]

SingleStar(star) == [tag |-> "SingleStar", star |-> star]

BinaryStar(alpha, beta) == [tag |-> "BinaryStar", alpha |-> alpha, beta |-> beta]

\* PendingPowers
Nil == [tag |-> "Nil"]

Pending(power, count, original_count) ==
    [tag |-> "Pending", power |-> power, count |-> count,
     original_count |-> original_count]

Exhausted(power, original_count) ==
    [tag |-> "Exhausted", power |-> power, original_count |-> original_count]

\* an empty HashMap (Fleet::default(), Default::default())
EmptyMap == [k \in {} |-> 0]

StarSystem(name, center, fleet_first, fleet_second, is_homeworld_for) ==
    [name |-> name, center |-> center, fleet_first |-> fleet_first,
     fleet_second |-> fleet_second, is_homeworld_for |-> is_homeworld_for]

\* Option<Player>
None == "None"

\* StarSystem::fleet
fleet(system, p) ==
    IF p = "First" THEN system.fleet_first ELSE system.fleet_second

\* fleet_mut with the match arms exchanged
fleet_mut_other_player(system, p, starships) ==
    IF p = "First" THEN [system EXCEPT !.fleet_second = starships]
    ELSE [system EXCEPT !.fleet_first = starships]

\* StarSystem::fleet_mut followed by a write of the fleet's map
fleet_mut(system, p, starships) ==
    IF p = "First" THEN [system EXCEPT !.fleet_first = starships]
    ELSE [system EXCEPT !.fleet_second = starships]

----------------------------------------------------------------------------
(* Results: Result<(), OperationError> *)

Ok == [tag |-> "Ok"]

\* OperationError::UnknownStarSystem
UnknownStarSystem == [tag |-> "Err", error |-> "UnknownStarSystem"]

\* OperationError::DuplicatedStarSystemName { name }
DuplicatedStarSystemName(name) ==
    [tag |-> "Err", error |-> "DuplicatedStarSystemName", name |-> name]

\* `.into()` / `?`: a family's error wrapped in its OperationError variant
Into(family, error) == [tag |-> "Err", family |-> family, error |-> error]

IsErr(r) == r.tag = "Err"

----------------------------------------------------------------------------
(* Ledger update primitive: engine/operations/utils.rs *)

\* HashMap::entry: the count stored under key, 0 for a vacant entry
Count(map, key) == IF key \in DOMAIN map THEN map[key] ELSE 0

\* OccupiedEntry::get_mut write / VacantEntry::insert
Insert(map, key, count) ==
    [k \in (DOMAIN map) \cup {key} |-> IF k = key THEN count ELSE map[k]]

\* OccupiedEntry::remove
Remove(map, key) == [k \in (DOMAIN map) \ {key} |-> map[k]]

\* NonZero<u8>::checked_add: 0 stands for None
checked_add(count, n) == IF count + n > U8Max THEN 0 ELSE count + n

\* update_hashmap_count with RemoveOne decrementing every occupied entry
\* (`count.get() > 0`), so that a count of 1 becomes a stored 0
update_hashmap_count_stores_zero(map, key, delta, overflow_error, not_found_error) ==
    IF delta = "AddOne"
    THEN IF key \in DOMAIN map
         THEN IF checked_add(map[key], 1) = 0
              THEN [map |-> map, ok |-> FALSE, error |-> overflow_error]
              ELSE [map |-> Insert(map, key, checked_add(map[key], 1)),
                    ok |-> TRUE, error |-> ""]
         ELSE [map |-> Insert(map, key, 1), ok |-> TRUE, error |-> ""]
    ELSE IF key \in DOMAIN map
         THEN [map |-> Insert(map, key, map[key] - 1), ok |-> TRUE, error |-> ""]
         ELSE [map |-> map, ok |-> FALSE, error |-> not_found_error]

\* update_hashmap_count with AddOne saturating at the u8 limit instead of
\* returning the overflow error
update_hashmap_count_saturates(map, key, delta, overflow_error, not_found_error) ==
    IF delta = "AddOne"
    THEN IF key \in DOMAIN map
         THEN IF checked_add(map[key], 1) = 0
              THEN [map |-> map, ok |-> TRUE, error |-> ""]
              ELSE [map |-> Insert(map, key, checked_add(map[key], 1)),
                    ok |-> TRUE, error |-> ""]
         ELSE [map |-> Insert(map, key, 1), ok |-> TRUE, error |-> ""]
    ELSE IF key \in DOMAIN map
         THEN IF map[key] > 1
              THEN [map |-> Insert(map, key, map[key] - 1),
                    ok |-> TRUE, error |-> ""]
              ELSE [map |-> Remove(map, key), ok |-> TRUE, error |-> ""]
         ELSE [map |-> map, ok |-> FALSE, error |-> not_found_error]

\* update_hashmap_count with RemoveOne on a vacant entry returning Ok
update_hashmap_count_ignores_vacant(map, key, delta, overflow_error, not_found_error) ==
    IF delta = "AddOne"
    THEN IF key \in DOMAIN map
         THEN IF checked_add(map[key], 1) = 0
              THEN [map |-> map, ok |-> FALSE, error |-> overflow_error]
              ELSE [map |-> Insert(map, key, checked_add(map[key], 1)),
                    ok |-> TRUE, error |-> ""]
         ELSE [map |-> Insert(map, key, 1), ok |-> TRUE, error |-> ""]
    ELSE IF key \in DOMAIN map
         THEN IF map[key] > 1
              THEN [map |-> Insert(map, key, map[key] - 1),
                    ok |-> TRUE, error |-> ""]
              ELSE [map |-> Remove(map, key), ok |-> TRUE, error |-> ""]
         ELSE [map |-> map, ok |-> TRUE, error |-> ""]

\* update_hashmap_count with RemoveOne taking the whole entry away whatever
\* its count
update_hashmap_count_removes_entry(map, key, delta, overflow_error, not_found_error) ==
    IF delta = "AddOne"
    THEN IF key \in DOMAIN map
         THEN IF checked_add(map[key], 1) = 0
              THEN [map |-> map, ok |-> FALSE, error |-> overflow_error]
              ELSE [map |-> Insert(map, key, checked_add(map[key], 1)),
                    ok |-> TRUE, error |-> ""]
         ELSE [map |-> Insert(map, key, 1), ok |-> TRUE, error |-> ""]
    ELSE IF key \in DOMAIN map
         THEN [map |-> Remove(map, key), ok |-> TRUE, error |-> ""]
         ELSE [map |-> map, ok |-> FALSE, error |-> not_found_error]

\* update_hashmap_count with RemoveOne on a count of 1 returning Ok and
\* leaving the entry as it is
update_hashmap_count_keeps_last(map, key, delta, overflow_error, not_found_error) ==
    IF delta = "AddOne"
    THEN IF key \in DOMAIN map
         THEN IF checked_add(map[key], 1) = 0
              THEN [map |-> map, ok |-> FALSE, error |-> overflow_error]
              ELSE [map |-> Insert(map, key, checked_add(map[key], 1)),
                    ok |-> TRUE, error |-> ""]
         ELSE [map |-> Insert(map, key, 1), ok |-> TRUE, error |-> ""]
    ELSE IF key \in DOMAIN map
         THEN IF map[key] > 1
              THEN [map |-> Insert(map, key, map[key] - 1),
                    ok |-> TRUE, error |-> ""]
              ELSE [map |-> map, ok |-> TRUE, error |-> ""]
         ELSE [map |-> map, ok |-> FALSE, error |-> not_found_error]

update_hashmap_count(map, key, delta, overflow_error, not_found_error) ==
    IF delta = "AddOne"
    THEN IF key \in DOMAIN map
         THEN IF checked_add(map[key], 1) = 0
              THEN [map |-> map, ok |-> FALSE, error |-> overflow_error]
              ELSE [map |-> Insert(map, key, checked_add(map[key], 1)),
                    ok |-> TRUE, error |-> ""]
         ELSE [map |-> Insert(map, key, 1), ok |-> TRUE, error |-> ""]
    ELSE IF key \in DOMAIN map
         THEN IF map[key] > 1
              THEN [map |-> Insert(map, key, map[key] - 1),
                    ok |-> TRUE, error |-> ""]
              ELSE [map |-> Remove(map, key), ok |-> TRUE, error |-> ""]
         ELSE [map |-> map, ok |-> FALSE, error |-> not_found_error]

\* std::mem::replace(dest, src): src is left in dest, the old value is returned
replace(dest, src) == [returned |-> dest, dest |-> src]

----------------------------------------------------------------------------
(* Lookup of a system by name in discovered_systems *)

\* iter().position(|it| it.name == name): the first index, 0 for None
position(systems, name) ==
    IF \E i \in 1..Len(systems) : systems[i].name = name
    THEN CHOOSE i \in 1..Len(systems) :
            /\ systems[i].name = name
            /\ \A j \in 1..(i - 1) : systems[j].name # name
    ELSE 0

\* removal that fills the hole with the last system (Vec::swap_remove)
remove_swaps(systems, index) ==
    [i \in 1..(Len(systems) - 1) |->
        IF i = index THEN systems[Len(systems)] ELSE systems[i]]

\* Vec::remove(index)
remove(systems, index) ==
    [i \in 1..(Len(systems) - 1) |->
        IF i < index THEN systems[i] ELSE systems[i + 1]]

----------------------------------------------------------------------------
(* Operations: impl Apply for ... *)

\* DiscoverSystem, a duplicate name replacing the system that carries it
DiscoverSystem_overwrites(name, center_star) ==
    LET index == position(discovered_systems, name)
        system == StarSystem(name, SingleStar(center_star),
                             EmptyMap, EmptyMap, None)
    IN  /\ discovered_systems' =
                IF index = 0
                THEN Append(discovered_systems, system)
                ELSE [discovered_systems EXCEPT ![index] = system]
        /\ result' = IF index = 0 THEN Ok ELSE DuplicatedStarSystemName(name)
        /\ UNCHANGED <<player, bank, homeworld_first, homeworld_second,
                       pending_powers, current_turn_status>>

\* DiscoverSystem, the new system put at the front of the list
DiscoverSystem_prepends(name, center_star) ==
    IF \E i \in 1..Len(discovered_systems) : discovered_systems[i].name = name
    THEN /\ result' = DuplicatedStarSystemName(name)
         /\ UNCHANGED state
    ELSE /\ discovered_systems' =
                <<StarSystem(name, SingleStar(center_star),
                             EmptyMap, EmptyMap, None)>> \o discovered_systems
         /\ result' = Ok
         /\ UNCHANGED <<player, bank, homeworld_first, homeworld_second,
                        pending_powers, current_turn_status>>

\* DiscoverSystem without the duplicate-name check
DiscoverSystem_unchecked(name, center_star) ==
    /\ discovered_systems' =
            Append(discovered_systems,
                   StarSystem(name, SingleStar(center_star),
                              EmptyMap, EmptyMap, None))
    /\ result' = Ok
    /\ UNCHANGED <<player, bank, homeworld_first, homeworld_second,
                   pending_powers, current_turn_status>>

\* engine/operations/systems.rs: DiscoverSystem
DiscoverSystem(name, center_star) ==
    IF \E i \in 1..Len(discovered_systems) : discovered_systems[i].name = name
    THEN /\ result' = DuplicatedStarSystemName(name)
         /\ UNCHANGED state
    ELSE /\ discovered_systems' =
                Append(discovered_systems,
                       StarSystem(name, SingleStar(center_star),
                                  EmptyMap, EmptyMap, None))
         /\ result' = Ok
         /\ UNCHANGED <<player, bank, homeworld_first, homeworld_second,
                        pending_powers, current_turn_status>>

\* ForgetSystem, the lookup reaching the fixed homeworlds and clearing the
\* one that carries the name
ForgetSystem_clears_homeworld(star_system_name) ==
    LET system_index == position(discovered_systems, star_system_name)
        cleared == StarSystem("", Empty, EmptyMap, EmptyMap, None)
    IN
    IF star_system_name = homeworld_first.name
    THEN /\ homeworld_first' = cleared
         /\ result' = Ok
         /\ UNCHANGED <<player, bank, homeworld_second, discovered_systems,
                        pending_powers, current_turn_status>>
    ELSE IF star_system_name = homeworld_second.name
    THEN /\ homeworld_second' = cleared
         /\ result' = Ok
         /\ UNCHANGED <<player, bank, homeworld_first, discovered_systems,
                        pending_powers, current_turn_status>>
    ELSE IF system_index = 0
    THEN /\ result' = UnknownStarSystem
         /\ UNCHANGED state
    ELSE LET system == discovered_systems[system_index] IN
         IF system.is_homeworld_for # None
         THEN /\ result' = Into("ForgetSystemError", "CannotForgetHomeworld")
              /\ UNCHANGED state
         ELSE IF system.fleet_first # EmptyMap \/ system.fleet_second # EmptyMap
         THEN /\ result' = Into("ForgetSystemError", "FleetsNotEmpty")
              /\ UNCHANGED state
         ELSE /\ discovered_systems' = remove(discovered_systems, system_index)
              /\ result' = Ok
              /\ UNCHANGED <<player, bank, homeworld_first, homeworld_second,
                             pending_powers, current_turn_status>>

\* ForgetSystem without the FleetsNotEmpty check
ForgetSystem_drops_fleets(star_system_name) ==
    LET system_index == position(discovered_systems, star_system_name) IN
    IF system_index = 0
    THEN /\ result' = UnknownStarSystem
         /\ UNCHANGED state
    ELSE LET system == discovered_systems[system_index] IN
         IF system.is_homeworld_for # None
         THEN /\ result' = Into("ForgetSystemError", "CannotForgetHomeworld")
              /\ UNCHANGED state
         ELSE /\ discovered_systems' = remove(discovered_systems, system_index)
              /\ result' = Ok
              /\ UNCHANGED <<player, bank, homeworld_first, homeworld_second,
                             pending_powers, current_turn_status>>

\* ForgetSystem, the fleets looked at before the homeworld tag
ForgetSystem_checks_fleets_first(star_system_name) ==
    LET system_index == position(discovered_systems, star_system_name) IN
    IF system_index = 0
    THEN /\ result' = UnknownStarSystem
         /\ UNCHANGED state
    ELSE LET system == discovered_systems[system_index] IN
         IF system.fleet_first # EmptyMap \/ system.fleet_second # EmptyMap
         THEN /\ result' = Into("ForgetSystemError", "FleetsNotEmpty")
              /\ UNCHANGED state
         ELSE IF system.is_homeworld_for # None
         THEN /\ result' = Into("ForgetSystemError", "CannotForgetHomeworld")
              /\ UNCHANGED state
         ELSE /\ discovered_systems' = remove(discovered_systems, system_index)
              /\ result' = Ok
              /\ UNCHANGED <<player, bank, homeworld_first, homeworld_second,
                             pending_powers, current_turn_status>>

\* ForgetSystem leaving the forgotten system in the list with an empty center
ForgetSystem_keeps_tombstone(star_system_name) ==
    LET system_index == position(discovered_systems, star_system_name) IN
    IF system_index = 0
    THEN /\ result' = UnknownStarSystem
         /\ UNCHANGED state
    ELSE LET system == discovered_systems[system_index] IN
         IF system.is_homeworld_for # None
         THEN /\ result' = Into("ForgetSystemError", "CannotForgetHomeworld")
              /\ UNCHANGED state
         ELSE IF system.fleet_first # EmptyMap \/ system.fleet_second # EmptyMap
         THEN /\ result' = Into("ForgetSystemError", "FleetsNotEmpty")
              /\ UNCHANGED state
         ELSE /\ discovered_systems' =
                    [discovered_systems EXCEPT ![system_index].center = Empty]
              /\ result' = Ok
              /\ UNCHANGED <<player, bank, homeworld_first, homeworld_second,
                             pending_powers, current_turn_status>>

\* engine/operations/systems.rs: ForgetSystem
ForgetSystem(star_system_name) ==
    LET system_index == position(discovered_systems, star_system_name) IN
    IF system_index = 0
    THEN /\ result' = UnknownStarSystem
         /\ UNCHANGED state
    ELSE LET system == discovered_systems[system_index] IN
         IF system.is_homeworld_for # None
         THEN /\ result' = Into("ForgetSystemError", "CannotForgetHomeworld")
              /\ UNCHANGED state
         ELSE IF system.fleet_first # EmptyMap \/ system.fleet_second # EmptyMap
         THEN /\ result' = Into("ForgetSystemError", "FleetsNotEmpty")
              /\ UNCHANGED state
         ELSE /\ discovered_systems' = remove(discovered_systems, system_index)
              /\ result' = Ok
              /\ UNCHANGED <<player, bank, homeworld_first, homeworld_second,
                             pending_powers, current_turn_status>>

\* UpdateFleet, the ledger consulted before the system is looked up
UpdateFleet_consults_ledger_first(star_system_name, p, starship, delta) ==
    LET index == position(discovered_systems, star_system_name)
        starships == IF index = 0 THEN EmptyMap
                     ELSE fleet(discovered_systems[index], p)
        r == update_hashmap_count(starships, starship, delta,
                                  "FleetCountOverflow", "NoSuchStarships")
    IN
    IF ~r.ok
    THEN /\ result' = Into("UpdateFleetError", r.error)
         /\ UNCHANGED state
    ELSE IF index = 0
    THEN /\ result' = UnknownStarSystem
         /\ UNCHANGED state
    ELSE /\ discovered_systems' =
                [discovered_systems EXCEPT
                    ![index] = fleet_mut(discovered_systems[index], p, r.map)]
         /\ result' = Ok
         /\ UNCHANGED <<player, bank, homeworld_first, homeworld_second,
                        pending_powers, current_turn_status>>

\* engine/operations/fleet.rs: UpdateFleet
UpdateFleet(star_system_name, p, starship, delta) ==
    LET index == position(discovered_systems, star_system_name) IN
    IF index = 0
    THEN /\ result' = UnknownStarSystem
         /\ UNCHANGED state
    ELSE LET star_system == discovered_systems[index]
             r == update_hashmap_count(fleet(star_system, p), starship, delta,
                                       "FleetCountOverflow", "NoSuchStarships")
         IN /\ discovered_systems' =
                    [discovered_systems EXCEPT
                        ![index] = fleet_mut(star_system, p, r.map)]
            /\ result' = IF r.ok THEN Ok ELSE Into("UpdateFleetError", r.error)
            /\ UNCHANGED <<player, bank, homeworld_first, homeworld_second,
                           pending_powers, current_turn_status>>

\* UpdateBank, the bank keyed by the color of the piece alone
UpdateBank_keyed_by_color(pyramid, delta) ==
    LET key == [color |-> pyramid.color, size |-> "Small"]
        r == update_hashmap_count(bank, key, delta,
                                  "BankCountOverflow", "NoPyramidsInBank")
    IN /\ bank' = r.map
       /\ result' = IF r.ok THEN Ok ELSE Into("UpdateBankError", r.error)
       /\ UNCHANGED <<player, homeworld_first, homeworld_second,
                      discovered_systems, pending_powers, current_turn_status>>

\* engine/operations/bank.rs: UpdateBank
UpdateBank(pyramid, delta) ==
    LET r == update_hashmap_count(bank, pyramid, delta,
                                  "BankCountOverflow", "NoPyramidsInBank")
    IN /\ bank' = r.map
       /\ result' = IF r.ok THEN Ok ELSE Into("UpdateBankError", r.error)
       /\ UNCHANGED <<player, homeworld_first, homeworld_second,
                      discovered_systems, pending_powers, current_turn_status>>

\* DestroyStarSelector
Single == [tag |-> "Single"]

Binary(star_id) == [tag |-> "Binary", id |-> star_id]

\* destroy_star_center, the named star of a binary center surviving
destroy_star_center_keeps_named(center, star) ==
    IF star.tag = "Binary"
    THEN CASE center.tag = "BinaryStar" ->
                [center |-> SingleStar(IF star.id = "Alpha"
                                       THEN center.alpha
                                       ELSE center.beta),
                 result |-> Ok]
           [] center.tag = "SingleStar" ->
                [center |-> Empty,
                 result |-> Into("DestroyStarError", "NotABinarySystem")]
           [] center.tag = "Empty" ->
                [center |-> Empty,
                 result |-> Into("DestroyStarError", "CenterAlreadyEmpty")]
    ELSE CASE center.tag = "SingleStar" ->
                [center |-> Empty, result |-> Ok]
           [] center.tag = "BinaryStar" ->
                [center |-> Empty,
                 result |-> Into("DestroyStarError", "NotASingleStarSystem")]
           [] center.tag = "Empty" ->
                [center |-> Empty,
                 result |-> Into("DestroyStarError", "CenterAlreadyEmpty")]

\* destroy_star_center, an Empty center falling into the arms of the other
\* mismatches
destroy_star_center_empty_as_mismatch(center, star) ==
    IF star.tag = "Binary"
    THEN CASE center.tag = "BinaryStar" ->
                [center |-> SingleStar(IF star.id = "Alpha"
                                       THEN center.beta
                                       ELSE center.alpha),
                 result |-> Ok]
           [] OTHER ->
                [center |-> Empty,
                 result |-> Into("DestroyStarError", "NotABinarySystem")]
    ELSE CASE center.tag = "SingleStar" ->
                [center |-> Empty, result |-> Ok]
           [] OTHER ->
                [center |-> Empty,
                 result |-> Into("DestroyStarError", "NotASingleStarSystem")]

\* destroy_star_center, Single on a single star succeeding with the star left
\* in place
destroy_star_center_single_keeps(center, star) ==
    LET moved == replace(center, Empty)
        old_center == moved.returned
        replaced == moved.dest
    IN
    IF star.tag = "Binary"
    THEN CASE old_center.tag = "BinaryStar" ->
                [center |-> SingleStar(IF star.id = "Alpha"
                                       THEN old_center.beta
                                       ELSE old_center.alpha),
                 result |-> Ok]
           [] old_center.tag = "SingleStar" ->
                [center |-> replaced,
                 result |-> Into("DestroyStarError", "NotABinarySystem")]
           [] old_center.tag = "Empty" ->
                [center |-> replaced,
                 result |-> Into("DestroyStarError", "CenterAlreadyEmpty")]
    ELSE CASE old_center.tag = "SingleStar" ->
                [center |-> old_center, result |-> Ok]
           [] old_center.tag = "BinaryStar" ->
                [center |-> replaced,
                 result |-> Into("DestroyStarError", "NotASingleStarSystem")]
           [] old_center.tag = "Empty" ->
                [center |-> replaced,
                 result |-> Into("DestroyStarError", "CenterAlreadyEmpty")]

\* engine/operations/stars.rs: the center DestroyStar leaves and what it returns.
\* `replace` moves the old center out and leaves Empty in the system; the match
\* assigns the new center, and an early return leaves what `replace` left.
destroy_star_center(center, star) ==
    LET moved == replace(center, Empty)
        old_center == moved.returned
        replaced == moved.dest
    IN
    IF star.tag = "Binary"
    THEN CASE old_center.tag = "BinaryStar" ->
                [center |-> SingleStar(IF star.id = "Alpha"
                                       THEN old_center.beta
                                       ELSE old_center.alpha),
                 result |-> Ok]
           [] old_center.tag = "SingleStar" ->
                [center |-> replaced,
                 result |-> Into("DestroyStarError", "NotABinarySystem")]
           [] old_center.tag = "Empty" ->
                [center |-> replaced,
                 result |-> Into("DestroyStarError", "CenterAlreadyEmpty")]
    ELSE CASE old_center.tag = "SingleStar" ->
                [center |-> Empty, result |-> Ok]
           [] old_center.tag = "BinaryStar" ->
                [center |-> replaced,
                 result |-> Into("DestroyStarError", "NotASingleStarSystem")]
           [] old_center.tag = "Empty" ->
                [center |-> replaced,
                 result |-> Into("DestroyStarError", "CenterAlreadyEmpty")]

\* engine/operations/stars.rs: DestroyStar
DestroyStar(star_system_name, star) ==
    LET index == position(discovered_systems, star_system_name) IN
    IF index = 0
    THEN /\ result' = UnknownStarSystem
         /\ UNCHANGED state
    ELSE LET r == destroy_star_center(discovered_systems[index].center, star)
         IN /\ discovered_systems' =
                    [discovered_systems EXCEPT ![index].center = r.center]
            /\ result' = r.result
            /\ UNCHANGED <<player, bank, homeworld_first, homeworld_second,
                           pending_powers, current_turn_status>>

\* UpdatePendingPowers
Set(power, count) == [tag |-> "Set", power |-> power, count |-> count]

UseOne == [tag |-> "UseOne"]

\* update_pending_powers with Set arming the power in every phase (no
\* CanOnlyBeSetOnce check)
update_pending_powers_set_always(state_pending_powers, op) ==
    LET moved == replace(state_pending_powers, Nil)
        old == moved.returned
        replaced == moved.dest
    IN
    IF op.tag = "Set"
    THEN [pending_powers |-> Pending(op.power, op.count, op.count),
          result |-> Ok]
    ELSE CASE old.tag = "Pending" ->
                IF old.count > 1
                THEN [pending_powers |->
                        Pending(old.power, old.count - 1, old.original_count),
                      result |-> Ok]
                ELSE [pending_powers |->
                        Exhausted(replace(old.power, "Build").returned,
                                  old.original_count),
                      result |-> Ok]
           [] old.tag = "Nil" ->
                [pending_powers |-> replaced,
                 result |-> Into("UpdatePendingPowersError", "NotSet")]
           [] old.tag = "Exhausted" ->
                [pending_powers |-> replaced,
                 result |-> Into("UpdatePendingPowersError", "AlreadyExhausted")]

\* update_pending_powers with the last use keeping `count` as the exhausted
\* power's original_count
update_pending_powers_loses_original(state_pending_powers, op) ==
    LET moved == replace(state_pending_powers, Nil)
        old == moved.returned
        replaced == moved.dest
    IN
    IF op.tag = "Set"
    THEN IF old.tag = "Nil"
         THEN [pending_powers |-> Pending(op.power, op.count, op.count),
               result |-> Ok]
         ELSE [pending_powers |-> replaced,
               result |-> Into("UpdatePendingPowersError", "CanOnlyBeSetOnce")]
    ELSE CASE old.tag = "Pending" ->
                IF old.count > 1
                THEN [pending_powers |->
                        Pending(old.power, old.count - 1, old.original_count),
                      result |-> Ok]
                ELSE [pending_powers |->
                        Exhausted(replace(old.power, "Build").returned,
                                  old.count),
                      result |-> Ok]
           [] old.tag = "Nil" ->
                [pending_powers |-> replaced,
                 result |-> Into("UpdatePendingPowersError", "NotSet")]
           [] old.tag = "Exhausted" ->
                [pending_powers |-> replaced,
                 result |-> Into("UpdatePendingPowersError", "AlreadyExhausted")]

\* update_pending_powers with the exhausted value taking the power that
\* `replace` left behind, the default Build
update_pending_powers_resets_power(state_pending_powers, op) ==
    LET moved == replace(state_pending_powers, Nil)
        old == moved.returned
        replaced == moved.dest
    IN
    IF op.tag = "Set"
    THEN IF old.tag = "Nil"
         THEN [pending_powers |-> Pending(op.power, op.count, op.count),
               result |-> Ok]
         ELSE [pending_powers |-> replaced,
               result |-> Into("UpdatePendingPowersError", "CanOnlyBeSetOnce")]
    ELSE CASE old.tag = "Pending" ->
                IF old.count > 1
                THEN [pending_powers |->
                        Pending(old.power, old.count - 1, old.original_count),
                      result |-> Ok]
                ELSE [pending_powers |->
                        Exhausted(replace(old.power, "Build").dest,
                                  old.original_count),
                      result |-> Ok]
           [] old.tag = "Nil" ->
                [pending_powers |-> replaced,
                 result |-> Into("UpdatePendingPowersError", "NotSet")]
           [] old.tag = "Exhausted" ->
                [pending_powers |-> replaced,
                 result |-> Into("UpdatePendingPowersError", "AlreadyExhausted")]

\* update_pending_powers with UseOne lowering original_count with count
update_pending_powers_decrements_both(state_pending_powers, op) ==
    LET moved == replace(state_pending_powers, Nil)
        old == moved.returned
        replaced == moved.dest
    IN
    IF op.tag = "Set"
    THEN IF old.tag = "Nil"
         THEN [pending_powers |-> Pending(op.power, op.count, op.count),
               result |-> Ok]
         ELSE [pending_powers |-> replaced,
               result |-> Into("UpdatePendingPowersError", "CanOnlyBeSetOnce")]
    ELSE CASE old.tag = "Pending" ->
                IF old.count > 1
                THEN [pending_powers |->
                        Pending(old.power, old.count - 1, old.original_count - 1),
                      result |-> Ok]
                ELSE [pending_powers |->
                        Exhausted(replace(old.power, "Build").returned,
                                  old.original_count),
                      result |-> Ok]
           [] old.tag = "Nil" ->
                [pending_powers |-> replaced,
                 result |-> Into("UpdatePendingPowersError", "NotSet")]
           [] old.tag = "Exhausted" ->
                [pending_powers |-> replaced,
                 result |-> Into("UpdatePendingPowersError", "AlreadyExhausted")]

\* engine/operations/pending_powers.rs: the value UpdatePendingPowers leaves in
\* state.pending_powers and what it returns.  `replace` moves the old value out
\* and leaves Nil in the state; an early return leaves what `replace` left.
update_pending_powers(state_pending_powers, op) ==
    LET moved == replace(state_pending_powers, Nil)
        old == moved.returned
        replaced == moved.dest
    IN
    IF op.tag = "Set"
    THEN IF old.tag = "Nil"
         THEN [pending_powers |-> Pending(op.power, op.count, op.count),
               result |-> Ok]
         ELSE [pending_powers |-> replaced,
               result |-> Into("UpdatePendingPowersError", "CanOnlyBeSetOnce")]
    ELSE CASE old.tag = "Pending" ->
                IF old.count > 1
                THEN [pending_powers |->
                        Pending(old.power, old.count - 1, old.original_count),
                      result |-> Ok]
                ELSE [pending_powers |->
                        Exhausted(replace(old.power, "Build").returned,
                                  old.original_count),
                      result |-> Ok]
           [] old.tag = "Nil" ->
                [pending_powers |-> replaced,
                 result |-> Into("UpdatePendingPowersError", "NotSet")]
           [] old.tag = "Exhausted" ->
                [pending_powers |-> replaced,
                 result |-> Into("UpdatePendingPowersError", "AlreadyExhausted")]

\* engine/operations/pending_powers.rs: UpdatePendingPowers
UpdatePendingPowers(op) ==
    LET r == update_pending_powers(pending_powers, op)
    IN /\ pending_powers' = r.pending_powers
       /\ result' = r.result
       /\ UNCHANGED <<player, bank, homeworld_first, homeworld_second,
                      discovered_systems, current_turn_status>>

\* SetCurrentTurnStatus, an accepted change handing the turn to the opponent
SetCurrentTurnStatus_hands_over(new_status) ==
    IF current_turn_status = new_status
    THEN /\ result' = Into("SetCurrentTurnStatusError", "NoChange")
         /\ UNCHANGED state
    ELSE IF current_turn_status # "MakingActions"
    THEN /\ result' = Into("SetCurrentTurnStatusError",
                           "CanOnlyChangeFromMakingActions")
         /\ UNCHANGED state
    ELSE /\ current_turn_status' = new_status
         /\ player' = IF player = "First" THEN "Second" ELSE "First"
         /\ result' = Ok
         /\ UNCHANGED <<bank, homeworld_first, homeworld_second,
                        discovered_systems, pending_powers>>

\* SetCurrentTurnStatus without the MakingActions check
SetCurrentTurnStatus_from_any(new_status) ==
    IF current_turn_status = new_status
    THEN /\ result' = Into("SetCurrentTurnStatusError", "NoChange")
         /\ UNCHANGED state
    ELSE /\ current_turn_status' = new_status
         /\ result' = Ok
         /\ UNCHANGED <<player, bank, homeworld_first, homeworld_second,
                        discovered_systems, pending_powers>>

\* SetCurrentTurnStatus, the MakingActions check made before the NoChange one
SetCurrentTurnStatus_checks_source_first(new_status) ==
    IF current_turn_status # "MakingActions"
    THEN /\ result' = Into("SetCurrentTurnStatusError",
                           "CanOnlyChangeFromMakingActions")
         /\ UNCHANGED state
    ELSE IF current_turn_status = new_status
    THEN /\ result' = Into("SetCurrentTurnStatusError", "NoChange")
         /\ UNCHANGED state
    ELSE /\ current_turn_status' = new_status
         /\ result' = Ok
         /\ UNCHANGED <<player, bank, homeworld_first, homeworld_second,
                        discovered_systems, pending_powers>>

\* SetCurrentTurnStatus, every accepted change ending in Passing
SetCurrentTurnStatus_always_passes(new_status) ==
    IF current_turn_status = new_status
    THEN /\ result' = Into("SetCurrentTurnStatusError", "NoChange")
         /\ UNCHANGED state
    ELSE IF current_turn_status # "MakingActions"
    THEN /\ result' = Into("SetCurrentTurnStatusError",
                           "CanOnlyChangeFromMakingActions")
         /\ UNCHANGED state
    ELSE /\ current_turn_status' = "Passing"
         /\ result' = Ok
         /\ UNCHANGED <<player, bank, homeworld_first, homeworld_second,
                        discovered_systems, pending_powers>>

\* SetCurrentTurnStatus, a return to MakingActions accepted
SetCurrentTurnStatus_reopens(new_status) ==
    IF current_turn_status = new_status
    THEN /\ result' = Into("SetCurrentTurnStatusError", "NoChange")
         /\ UNCHANGED state
    ELSE IF current_turn_status # "MakingActions" /\ new_status # "MakingActions"
    THEN /\ result' = Into("SetCurrentTurnStatusError",
                           "CanOnlyChangeFromMakingActions")
         /\ UNCHANGED state
    ELSE /\ current_turn_status' = new_status
         /\ result' = Ok
         /\ UNCHANGED <<player, bank, homeworld_first, homeworld_second,
                        discovered_systems, pending_powers>>

\* engine/operations/turn.rs: SetCurrentTurnStatus
SetCurrentTurnStatus(new_status) ==
    IF current_turn_status = new_status
    THEN /\ result' = Into("SetCurrentTurnStatusError", "NoChange")
         /\ UNCHANGED state
    ELSE IF current_turn_status # "MakingActions"
    THEN /\ result' = Into("SetCurrentTurnStatusError",
                           "CanOnlyChangeFromMakingActions")
         /\ UNCHANGED state
    ELSE /\ current_turn_status' = new_status
         /\ result' = Ok
         /\ UNCHANGED <<player, bank, homeworld_first, homeworld_second,
                        discovered_systems, pending_powers>>

----------------------------------------------------------------------------
(* The initial turn state: create_test_state of the operations' tests *)

TurnStateInit(pyramids, systems) ==
    /\ player = "First"
    /\ bank = pyramids
    /\ homeworld_first = StarSystem("Homeworld1", Empty, EmptyMap, EmptyMap, "First")
    /\ homeworld_second = StarSystem("Homeworld2", Empty, EmptyMap, EmptyMap, "Second")
    /\ discovered_systems = systems
    /\ pending_powers = Nil
    /\ current_turn_status = "MakingActions"

\* no successful AddOne or RemoveOne yet: no piece of the bank and no
\* <<player, starship>> of the fleets has an entry
NoneTallied == [bank |-> EmptyMap, fleet |-> EmptyMap]

HistoryInit ==
    /\ result = [tag |-> "None"]
    /\ ever_exhausted = FALSE
    /\ set_ok_count = 0
    /\ pp_calls = << >>
    /\ streak = [n |-> 0]
    /\ call = [op |-> "None"]
    /\ tally = NoneTallied
    /\ prior = [n |-> 0]

Init == TurnStateInit(EmptyMap, << >>) /\ HistoryInit

----------------------------------------------------------------------------
(* The operations a caller of Spec issues, and what the history keeps *)

SystemNames == {"Alpha"}

RedSmall == [color |-> "Red", size |-> "Small"]

BlueMedium == [color |-> "Blue", size |-> "Medium"]

Stars == {RedSmall}

Pyramids == {RedSmall}

Powers == {"Build", "Trade"}

Selectors == {Single, Binary("Alpha"), Binary("Beta")}

\* the fleet count an UpdateFleet would find, 0 when there is none
FleetCount(name, p, starship) ==
    LET index == position(discovered_systems, name) IN
    IF index = 0 THEN 0
    ELSE Count(fleet(discovered_systems[index], p), starship)

SawExhausted ==
    ever_exhausted' = (ever_exhausted \/ pending_powers'.tag = "Exhausted")

Observed ==
    SawExhausted /\ UNCHANGED <<set_ok_count, pp_calls, streak, call, tally, prior>>

DoDiscoverSystem ==
    \E name \in SystemNames, star \in Stars :
        DiscoverSystem(name, star) /\ Observed

DoForgetSystem ==
    \E name \in SystemNames : ForgetSystem(name) /\ Observed

DoUpdateFleet ==
    \E name \in SystemNames, p \in Player, starship \in Pyramids,
       delta \in UpdateOneDelta :
        /\ delta = "AddOne" => FleetCount(name, p, starship) < MaxCount
        /\ UpdateFleet(name, p, starship, delta)
        /\ Observed

DoUpdateBank ==
    \E pyramid \in Pyramids, delta \in UpdateOneDelta :
        /\ delta = "AddOne" => Count(bank, pyramid) < MaxCount
        /\ UpdateBank(pyramid, delta)
        /\ Observed

DoDestroyStar ==
    \E name \in SystemNames, star \in Selectors :
        DestroyStar(name, star) /\ Observed

PendingOps(powers) ==
    {Set(power, count) : power \in powers, count \in 1..MaxSetCount} \cup {UseOne}

CountedSet(op) ==
    set_ok_count' = IF op.tag = "Set" /\ result' = Ok
                    THEN set_ok_count + 1 ELSE set_ok_count

DoUpdatePendingPowers ==
    \E op \in PendingOps(Powers) :
        /\ op.tag = "Set" => set_ok_count < MaxSetOk
        /\ UpdatePendingPowers(op)
        /\ SawExhausted
        /\ CountedSet(op)
        /\ UNCHANGED <<pp_calls, streak, call, tally, prior>>

DoSetCurrentTurnStatus ==
    \E new_status \in CurrentTurnStatus :
        SetCurrentTurnStatus(new_status) /\ Observed

Next ==
    \/ DoDiscoverSystem
    \/ DoForgetSystem
    \/ DoUpdateFleet
    \/ DoUpdateBank
    \/ DoDestroyStar
    \/ DoUpdatePendingPowers
    \/ DoSetCurrentTurnStatus

Spec == Init /\ [][Next]_vars

----------------------------------------------------------------------------
(* Error handling of the operations *)

UpdatePendingPowersErrors ==
    {Into("UpdatePendingPowersError", e) :
        e \in {"CanOnlyBeSetOnce", "NotSet", "AlreadyExhausted"}}

DestroyStarErrors ==
    {Into("DestroyStarError", e) :
        e \in {"CenterAlreadyEmpty", "NotABinarySystem", "NotASingleStarSystem"}}

\* C1: atomicity: a call of any operation that returns an error leaves the
\* whole turn state (player, bank, homeworlds, discovered systems, pending
\* powers, turn status) as it was before the call.
C1_Atomicity == [][IsErr(result') => state' = state]_vars

\* C2: a DestroyStar that fails on an existing discovered system leaves that
\* system's center as it was; a non-empty center is never left Empty.
C2_FailedDestroyStarKeepsCenter ==
    [][result' \in DestroyStarErrors =>
            /\ Len(discovered_systems') = Len(discovered_systems)
            /\ \A i \in 1..Len(discovered_systems) :
                    discovered_systems'[i].center = discovered_systems[i].center]_vars

\* C3: once pending powers has been Exhausted, it is never Pending again,
\* whatever operations are applied.
C3_ExhaustedNeverPendingAgain ==
    ever_exhausted => pending_powers.tag # "Pending"

\* C4: starting from Nil, at most one UpdatePendingPowers::Set returns success,
\* whatever other calls are interleaved.
C4_SetSucceedsAtMostOnce == set_ok_count <= 1

\* C5: a failing UpdatePendingPowers call (CanOnlyBeSetOnce, NotSet,
\* AlreadyExhausted) leaves pending_powers exactly as it was.
C5_FailedUpdateKeepsPendingPowers ==
    [][result' \in UpdatePendingPowersErrors =>
            pending_powers' = pending_powers]_vars

\* C6: the outcome of one UpdatePendingPowers call is determined by the
\* operation and the phase: Set on Nil succeeds and yields Pending{power,
\* count, original_count = count}; Set on Pending or Exhausted fails with
\* CanOnlyBeSetOnce; UseOne on Pending succeeds, on Nil fails with NotSet, on
\* Exhausted fails with AlreadyExhausted.
C6_OutcomeByPhase ==
    [][\A op \in PendingOps(Power) :
        UpdatePendingPowers(op) =>
            IF op.tag = "Set"
            THEN IF pending_powers.tag = "Nil"
                 THEN /\ result' = Ok
                      /\ pending_powers' = Pending(op.power, op.count, op.count)
                 ELSE result' = Into("UpdatePendingPowersError", "CanOnlyBeSetOnce")
            ELSE CASE pending_powers.tag = "Pending" -> result' = Ok
                   [] pending_powers.tag = "Nil" ->
                        result' = Into("UpdatePendingPowersError", "NotSet")
                   [] pending_powers.tag = "Exhausted" ->
                        result' = Into("UpdatePendingPowersError", "AlreadyExhausted")]_vars

\* C6 witness: a UseOne refused on the power that one Set armed and UseOne
\* calls exhausted
C6_Witness ==
    /\ result = Into("UpdatePendingPowersError", "AlreadyExhausted")
    /\ ever_exhausted
    /\ set_ok_count = 1

----------------------------------------------------------------------------
(* SpecPending: UpdatePendingPowers calls alone, every power, the calls kept *)

DoRecordedUpdatePendingPowers ==
    \E op \in PendingOps(Power) :
        /\ Len(pp_calls) < MaxCalls
        /\ UpdatePendingPowers(op)
        /\ SawExhausted
        /\ CountedSet(op)
        /\ pp_calls' = Append(pp_calls, op)
        /\ UNCHANGED <<streak, call, tally, prior>>

NextPending == DoRecordedUpdatePendingPowers

SpecPending == Init /\ [][NextPending]_vars

UseOnes(k) == [i \in 1..k |-> UseOne]

\* C7: pending powers round trip: from Nil, Set{p, n} followed by n UseOne all
\* succeed; after the k-th UseOne (k < n) the value is Pending with count n-k
\* and original_count n, after the n-th it is Exhausted with original_count n;
\* the (n+1)-th UseOne fails with AlreadyExhausted; a second Set right after
\* the first fails with CanOnlyBeSetOnce.
C7_RoundTrip ==
    \A p \in Power, n \in 1..MaxSetCount :
        /\ \A k \in 0..(n + 1) :
            pp_calls = <<Set(p, n)>> \o UseOnes(k) =>
                /\ k <= n => result = Ok
                /\ k < n => pending_powers = Pending(p, n - k, n)
                /\ k = n => /\ pending_powers.tag = "Exhausted"
                            /\ pending_powers.original_count = n
                /\ k = n + 1 =>
                    result = Into("UpdatePendingPowersError", "AlreadyExhausted")
        /\ \A q \in Power, m \in 1..MaxSetCount :
            pp_calls = <<Set(p, n), Set(q, m)>> =>
                result = Into("UpdatePendingPowersError", "CanOnlyBeSetOnce")

\* C7 witness: Set{Trade, 2}, two UseOne and the refused third
C7_Witness ==
    /\ pp_calls = <<Set("Trade", 2), UseOne, UseOne, UseOne>>
    /\ result = Into("UpdatePendingPowersError", "AlreadyExhausted")

----------------------------------------------------------------------------
(* SpecLedger: UpdateBank and UpdateFleet calls from empty ledgers, on the  *)
(* state of fleet.rs's tests (one discovered system).  Counts run up to the *)
(* u8 limit; the callers keep at most one count above MaxCount at a time.   *)

LedgerPyramids == {RedSmall, BlueMedium}

LedgerStarships == {RedSmall}

LedgerNames == {"Alpha", "Beta"}

InitLedger ==
    /\ TurnStateInit(EmptyMap,
                     <<StarSystem("Alpha", Empty, EmptyMap, EmptyMap, None)>>)
    /\ HistoryInit

\* number of ledger entries whose count is above MaxCount
TallEntries ==
    Cardinality({k \in DOMAIN bank : bank[k] > MaxCount})
    + Cardinality({e \in (1..Len(discovered_systems)) \X Player \X LedgerStarships :
                    Count(fleet(discovered_systems[e[1]], e[2]), e[3]) > MaxCount})

\* an AddOne on an entry of count c keeps at most one entry above MaxCount
AddOneIssued(c) ==
    \/ c < MaxCount
    \/ TallEntries = IF c > MaxCount THEN 1 ELSE 0

DoLedgerUpdateBank ==
    \E pyramid \in LedgerPyramids, delta \in UpdateOneDelta :
        /\ delta = "AddOne" => AddOneIssued(Count(bank, pyramid))
        /\ UpdateBank(pyramid, delta)
        /\ Observed

DoLedgerUpdateFleet ==
    \E name \in LedgerNames, p \in Player, starship \in LedgerStarships,
       delta \in UpdateOneDelta :
        /\ delta = "AddOne" => AddOneIssued(FleetCount(name, p, starship))
        /\ UpdateFleet(name, p, starship, delta)
        /\ Observed

NextLedger == DoLedgerUpdateBank \/ DoLedgerUpdateFleet

SpecLedger == InitLedger /\ [][NextLedger]_vars

\* every key of the ledger holds a count in 1..255
LedgerOk(map) == \A k \in DOMAIN map : map[k] \in 1..U8Max

\* C8: ledger invariant: from empty ledgers, after any sequence of UpdateBank
\* and UpdateFleet calls, every key present in the bank or in a fleet has a
\* count in 1..255; no key is present with count 0.
C8_LedgerInvariant ==
    /\ LedgerOk(bank)
    /\ \A i \in 1..Len(discovered_systems) :
            /\ LedgerOk(discovered_systems[i].fleet_first)
            /\ LedgerOk(discovered_systems[i].fleet_second)
    /\ LedgerOk(homeworld_first.fleet_first)
    /\ LedgerOk(homeworld_first.fleet_second)
    /\ LedgerOk(homeworld_second.fleet_first)
    /\ LedgerOk(homeworld_second.fleet_second)

\* C8 witness: the bank holds 255 of a piece and has refused one more, a fleet
\* holds one starship, and the other piece has left the bank
C8_Witness ==
    /\ result = Into("UpdateBankError", "BankCountOverflow")
    /\ bank = Insert(EmptyMap, RedSmall, U8Max)
    /\ discovered_systems[1].fleet_first = Insert(EmptyMap, RedSmall, 1)
    /\ discovered_systems[1].fleet_second = EmptyMap

----------------------------------------------------------------------------
(* SpecStreak: one run of equal UpdateBank calls on a bank drawn from the   *)
(* ledgers of two pieces, as utils.rs's tests build them.                   *)

StreakCounts == {0, 1, 2, U8Max - 1, U8Max}

\* the ledger holding counts[k] of every piece k with counts[k] > 0
LedgerOf(counts) ==
    [k \in {x \in DOMAIN counts : counts[x] > 0} |-> counts[k]]

InitStreak ==
    /\ \E counts \in [LedgerPyramids -> StreakCounts] :
            TurnStateInit(LedgerOf(counts), << >>)
    /\ HistoryInit

DoStreakUpdateBank ==
    \E pyramid \in LedgerPyramids, delta \in UpdateOneDelta :
        /\ streak.n < MaxStreak
        /\ streak.n > 0 => streak.pyramid = pyramid /\ streak.delta = delta
        /\ UpdateBank(pyramid, delta)
        /\ streak' = IF streak.n = 0
                     THEN [n |-> 1, pyramid |-> pyramid, delta |-> delta,
                           start |-> bank]
                     ELSE [streak EXCEPT !.n = @ + 1]
        /\ SawExhausted
        /\ UNCHANGED <<set_ok_count, pp_calls, call, tally, prior>>

NextStreak == DoStreakUpdateBank

SpecStreak == InitStreak /\ [][NextStreak]_vars

Min(a, b) == IF a < b THEN a ELSE b

\* the keys other than key hold in map what they hold in start
OthersKept(map, start, key) ==
    /\ (DOMAIN map) \ {key} = (DOMAIN start) \ {key}
    /\ \A k \in (DOMAIN map) \ {key} : map[k] = start[k]

\* C9: AddOne on an absent key inserts count 1, on a count c < 255 sets c+1,
\* on 255 returns the overflow error and the count stays 255; so n AddOne in
\* a row on a key that held c leave min(c + n, 255), exactly the calls that
\* would pass 255 failing with overflow; no other key is changed.
C9_AddOne ==
    (streak.n > 0 /\ streak.delta = "AddOne") =>
        LET c == Count(streak.start, streak.pyramid) IN
        /\ streak.pyramid \in DOMAIN bank
        /\ bank[streak.pyramid] = Min(c + streak.n, U8Max)
        /\ result = IF c + streak.n <= U8Max THEN Ok
                    ELSE Into("UpdateBankError", "BankCountOverflow")
        /\ OthersKept(bank, streak.start, streak.pyramid)

\* C9 witness: the 256th AddOne in a row on a fresh key, refused at 255
C9_Witness ==
    /\ streak.n = U8Max + 1
    /\ streak.delta = "AddOne"
    /\ streak.pyramid \notin DOMAIN streak.start
    /\ BlueMedium \in DOMAIN streak.start
    /\ bank[streak.pyramid] = U8Max
    /\ IsErr(result)

\* C10: RemoveOne on an absent key returns the not-found error and leaves the
\* key absent, on a count c > 1 sets c-1, on count 1 removes the key; so c
\* RemoveOne in a row on a key that held c all succeed and leave it absent,
\* the next fails with not-found; no other key is changed.
C10_RemoveOne ==
    (streak.n > 0 /\ streak.delta = "RemoveOne") =>
        LET c == Count(streak.start, streak.pyramid) IN
        /\ streak.n < c => /\ streak.pyramid \in DOMAIN bank
                           /\ bank[streak.pyramid] = c - streak.n
        /\ streak.n >= c => streak.pyramid \notin DOMAIN bank
        /\ result = IF streak.n <= c THEN Ok
                    ELSE Into("UpdateBankError", "NoPyramidsInBank")
        /\ OthersKept(bank, streak.start, streak.pyramid)

\* C10 witness: 255 RemoveOne in a row emptied a key that held 255, and the
\* 256th was refused
C10_Witness ==
    /\ streak.n = U8Max + 1
    /\ streak.delta = "RemoveOne"
    /\ Count(streak.start, streak.pyramid) = U8Max
    /\ BlueMedium \in DOMAIN bank
    /\ streak.pyramid \notin DOMAIN bank
    /\ result = Into("UpdateBankError", "NoPyramidsInBank")

----------------------------------------------------------------------------
(* SpecSystems: DiscoverSystem, ForgetSystem and UpdateFleet calls on the   *)
(* initial turn state, under names that include a fixed homeworld's; the    *)
(* operation of each call is kept in `call`.                                *)

\* discovered systems the callers of SpecSystems build up to
MaxSystems == 3

BoardNames == {"Alpha", "Beta", "Homeworld1"}

BoardStars == {RedSmall, BlueMedium}

Called(c) ==
    /\ call' = c
    /\ SawExhausted
    /\ UNCHANGED <<set_ok_count, pp_calls, streak, tally, prior>>

\* a system of that name is in the discovered list
Discovered(name) ==
    \E i \in 1..Len(discovered_systems) : discovered_systems[i].name = name

CallDiscoverSystem(names, stars) ==
    \E name \in names, star \in stars :
        /\ Len(discovered_systems) < MaxSystems \/ Discovered(name)
        /\ DiscoverSystem(name, star)
        /\ Called([op |-> "DiscoverSystem", name |-> name, center_star |-> star])

CallForgetSystem(names) ==
    \E name \in names :
        /\ ForgetSystem(name)
        /\ Called([op |-> "ForgetSystem", star_system_name |-> name])

CallUpdateFleet(names, starships) ==
    \E name \in names, p \in Player, starship \in starships,
       delta \in UpdateOneDelta :
        /\ delta = "AddOne" => FleetCount(name, p, starship) < MaxCount
        /\ UpdateFleet(name, p, starship, delta)
        /\ Called([op |-> "UpdateFleet", star_system_name |-> name,
                   player |-> p, starship |-> starship, delta |-> delta])

SystemsDiscoverSystem == CallDiscoverSystem(BoardNames, BoardStars)

SystemsForgetSystem == CallForgetSystem(BoardNames)

SystemsUpdateFleet == CallUpdateFleet(BoardNames, LedgerStarships)

NextSystems ==
    \/ SystemsDiscoverSystem
    \/ SystemsForgetSystem
    \/ SystemsUpdateFleet

SpecSystems == Init /\ [][NextSystems]_vars

\* the names of all systems of the board: the two homeworlds, then the
\* discovered systems in list order
BoardSystemNames ==
    <<homeworld_first.name, homeworld_second.name>>
        \o [i \in 1..Len(discovered_systems) |-> discovered_systems[i].name]

\* C11: in every reachable state no two systems among homeworld_first,
\* homeworld_second and the discovered systems have the same name.
C11_NamesUniqueOnBoard ==
    \A i, j \in 1..Len(BoardSystemNames) :
        i # j => BoardSystemNames[i] # BoardSystemNames[j]

\* C12: a DiscoverSystem whose name a discovered system already carries
\* fails with DuplicatedStarSystemName carrying that name and leaves the
\* discovered list, and with it the system of that name, as it was.
C12_DuplicateDiscoverRejected ==
    [][(call'.op = "DiscoverSystem" /\ Discovered(call'.name))
        => /\ result' = [tag |-> "Err", error |-> "DuplicatedStarSystemName",
                         name |-> call'.name]
           /\ Len(discovered_systems') = Len(discovered_systems)
           /\ \A i \in 1..Len(discovered_systems) :
                discovered_systems'[i] = discovered_systems[i]]_vars

\* a duplicate discovery was rejected on a list holding a system with a
\* different center and a ship in a fleet
C12_Witness ==
    /\ call.op = "DiscoverSystem"
    /\ result = DuplicatedStarSystemName(call.name)
    /\ \E i \in 1..Len(discovered_systems) :
        /\ discovered_systems[i].name = call.name
        /\ discovered_systems[i].center # SingleStar(call.center_star)
        /\ discovered_systems[i].fleet_first # EmptyMap
    /\ Len(discovered_systems) = 2

\* C13: a successful DiscoverSystem(name, star) puts one system at the end
\* of the discovered list, with that name, center SingleStar(star), both
\* fleets empty and no homeworld tag; the list is one longer and every
\* system discovered before keeps its position and contents.
C13_DiscoverAppendsOne ==
    [][(call'.op = "DiscoverSystem" /\ result'.tag = "Ok")
        => /\ Len(discovered_systems') = Len(discovered_systems) + 1
           /\ LET last == discovered_systems'[Len(discovered_systems')]
              IN  /\ last.name = call'.name
                  /\ last.center = [tag |-> "SingleStar", star |-> call'.center_star]
                  /\ DOMAIN last.fleet_first = {}
                  /\ DOMAIN last.fleet_second = {}
                  /\ last.is_homeworld_for = None
           /\ \A i \in 1..Len(discovered_systems) :
                discovered_systems'[i] = discovered_systems[i]]_vars

\* a third system was discovered behind two that hold ships
C13_Witness ==
    /\ call.op = "DiscoverSystem"
    /\ result = Ok
    /\ Len(discovered_systems) = 3
    /\ discovered_systems[3].name = call.name
    /\ discovered_systems[1].fleet_first # EmptyMap
    /\ discovered_systems[2].fleet_second # EmptyMap

----------------------------------------------------------------------------
(* SpecForget: the same calls on the boards the ForgetSystem tests start    *)
(* from: no discovered system, or one discovered system "Homeworld" that    *)
(* carries the homeworld tag of the first player.                           *)

ForgetNames == {"Alpha", "Homeworld"}

TaggedHomeworld == StarSystem("Homeworld", Empty, EmptyMap, EmptyMap, "First")

InitForget ==
    /\ \E systems \in {<< >>, <<TaggedHomeworld>>} :
            TurnStateInit(EmptyMap, systems)
    /\ HistoryInit

ForgetDiscoverSystem == CallDiscoverSystem(ForgetNames, Stars)

ForgetForgetSystem == CallForgetSystem(ForgetNames)

ForgetUpdateFleet == CallUpdateFleet(ForgetNames, LedgerStarships)

NextForget ==
    \/ ForgetDiscoverSystem
    \/ ForgetForgetSystem
    \/ ForgetUpdateFleet

SpecForget == InitForget /\ [][NextForget]_vars

\* the positions of the discovered systems that carry the name
Named(name) ==
    {i \in 1..Len(discovered_systems) : discovered_systems[i].name = name}

HasShips(system) ==
    DOMAIN system.fleet_first # {} \/ DOMAIN system.fleet_second # {}

\* C14: ForgetSystem reports the first violated precondition in the order
\* unknown name (UnknownStarSystem), homeworld tag (CannotForgetHomeworld,
\* also when the fleets hold ships), a key in either fleet (FleetsNotEmpty),
\* and a failing call removes no system.
C14_ForgetChecksInOrder ==
    [][call'.op = "ForgetSystem"
        => LET named == Named(call'.star_system_name)
               kept == discovered_systems' = discovered_systems
           IN  IF named = {}
               THEN result' = [tag |-> "Err", error |-> "UnknownStarSystem"]
                    /\ kept
               ELSE IF \E i \in named :
                         discovered_systems[i].is_homeworld_for \in Player
               THEN result' = [tag |-> "Err", family |-> "ForgetSystemError",
                               error |-> "CannotForgetHomeworld"]
                    /\ kept
               ELSE IF \E i \in named : HasShips(discovered_systems[i])
               THEN result' = [tag |-> "Err", family |-> "ForgetSystemError",
                               error |-> "FleetsNotEmpty"]
                    /\ kept
               ELSE result'.tag = "Ok"]_vars

\* a ForgetSystem on a tagged system whose fleets hold ships was refused
\* with CannotForgetHomeworld
C14_Witness ==
    /\ call.op = "ForgetSystem"
    /\ result = Into("ForgetSystemError", "CannotForgetHomeworld")
    /\ \E i \in Named(call.star_system_name) :
        /\ discovered_systems[i].is_homeworld_for = "First"
        /\ HasShips(discovered_systems[i])

----------------------------------------------------------------------------
(* SpecSystems: ForgetSystem and UpdateFleet calls that carry the name of   *)
(* a fixed homeworld, of a discovered system, or of no system.              *)

\* C15: a ForgetSystem whose name is that of homeworld_first or
\* homeworld_second returns CannotForgetHomeworld and leaves both homeworlds
\* in place.
C15_ForgetFixedHomeworldRefused ==
    [][(/\ call'.op = "ForgetSystem"
        /\ call'.star_system_name \in {homeworld_first.name, homeworld_second.name})
        => /\ result' = Into("ForgetSystemError", "CannotForgetHomeworld")
           /\ homeworld_first' = homeworld_first
           /\ homeworld_second' = homeworld_second]_vars

\* C16: a successful ForgetSystem(name) removes exactly the discovered
\* system of that name, which had no homeworld tag and empty fleets: the
\* list is one shorter, holds no system of that name, and the other systems
\* keep their contents and their order.
C16_ForgetRemovesOne ==
    [][(call'.op = "ForgetSystem" /\ result'.tag = "Ok")
        => /\ Len(discovered_systems') = Len(discovered_systems) - 1
           /\ \A i \in 1..Len(discovered_systems') :
                discovered_systems'[i].name # call'.star_system_name
           /\ \E k \in 1..Len(discovered_systems) :
                /\ discovered_systems[k].name = call'.star_system_name
                /\ discovered_systems[k].is_homeworld_for = None
                /\ ~HasShips(discovered_systems[k])
                /\ \A i \in 1..(k - 1) :
                        discovered_systems'[i] = discovered_systems[i]
                /\ \A i \in k..(Len(discovered_systems) - 1) :
                        discovered_systems'[i] = discovered_systems[i + 1]]_vars

\* a system was forgotten from a list of three, and the two that remain
\* hold ships
C16_Witness ==
    /\ call.op = "ForgetSystem"
    /\ result = Ok
    /\ Len(discovered_systems) = MaxSystems - 1
    /\ \A i \in 1..Len(discovered_systems) :
        /\ discovered_systems[i].name # call.star_system_name
        /\ HasShips(discovered_systems[i])

\* C18: an UpdateFleet whose name no discovered system carries fails with
\* UnknownStarSystem whatever the delta (a RemoveOne reports
\* UnknownStarSystem, not NoSuchStarships) and changes no fleet of any
\* system.
C18_UpdateFleetUnknownSystem ==
    [][(call'.op = "UpdateFleet" /\ Named(call'.star_system_name) = {})
        => /\ result' = [tag |-> "Err", error |-> "UnknownStarSystem"]
           /\ discovered_systems' = discovered_systems
           /\ homeworld_first' = homeworld_first
           /\ homeworld_second' = homeworld_second]_vars

\* a RemoveOne on a name that is on no system of the board was answered
\* with UnknownStarSystem while a discovered system holds ships
C18_Witness ==
    /\ call.op = "UpdateFleet"
    /\ call.delta = "RemoveOne"
    /\ \A i \in 1..Len(BoardSystemNames) :
            BoardSystemNames[i] # call.star_system_name
    /\ result = UnknownStarSystem
    /\ \E i \in 1..Len(discovered_systems) : HasShips(discovered_systems[i])

\* the count of the starship in the player's fleet of a system
ShipsOf(system, p, starship) ==
    LET ships == IF p = "First" THEN system.fleet_first ELSE system.fleet_second
    IN  IF starship \in DOMAIN ships THEN ships[starship] ELSE 0

\* the homeworld's fleet of the call's player after the call is what the
\* ledger update makes of the one before
HomeworldFleetUpdated(before, after) ==
    LET c == ShipsOf(before, call'.player, call'.starship)
        d == ShipsOf(after, call'.player, call'.starship)
    IN  IF call'.delta = "AddOne"
        THEN IF c < U8Max
             THEN result'.tag = "Ok" /\ d = c + 1
             ELSE result' = Into("UpdateFleetError", "FleetCountOverflow") /\ d = c
        ELSE IF c > 0
             THEN result'.tag = "Ok" /\ d = c - 1
             ELSE result' = Into("UpdateFleetError", "NoSuchStarships") /\ d = c

\* C19: an UpdateFleet whose star_system_name is the name of homeworld_first
\* or homeworld_second does not fail with UnknownStarSystem: it applies the
\* ledger update to the given player's fleet in that homeworld.
C19_UpdateFleetReachesHomeworld ==
    [][call'.op = "UpdateFleet"
        => /\ call'.star_system_name = homeworld_first.name
                => HomeworldFleetUpdated(homeworld_first, homeworld_first')
           /\ call'.star_system_name = homeworld_second.name
                => HomeworldFleetUpdated(homeworld_second, homeworld_second')
      ]_vars

----------------------------------------------------------------------------
(* SpecHomeworlds: all seven operations on the initial turn state, the      *)
(* named ones called with the names of the two fixed homeworlds.            *)

HomeworldNames == {"Homeworld1", "Homeworld2"}

\* the one name DiscoverSystem is called with
HomeworldDiscovered == {"Homeworld1"}

HomeworldsDiscoverSystem == CallDiscoverSystem(HomeworldDiscovered, Stars)

HomeworldsForgetSystem == CallForgetSystem(HomeworldNames)

HomeworldsUpdateFleet == CallUpdateFleet(HomeworldNames, LedgerStarships)

HomeworldsDestroyStar ==
    \E name \in HomeworldNames, star \in Selectors :
        /\ DestroyStar(name, star)
        /\ Called([op |-> "DestroyStar", star_system_name |-> name, star |-> star])

HomeworldsUpdatePendingPowers ==
    \E op \in {Set("Build", 1), UseOne} :
        UpdatePendingPowers(op) /\ Observed

NextHomeworlds ==
    \/ HomeworldsDiscoverSystem
    \/ HomeworldsForgetSystem
    \/ HomeworldsUpdateFleet
    \/ HomeworldsDestroyStar
    \/ DoUpdateBank
    \/ HomeworldsUpdatePendingPowers
    \/ DoSetCurrentTurnStatus

SpecHomeworlds == Init /\ [][NextHomeworlds]_vars

\* C17: no operation removes or replaces a fixed homeworld: across every
\* step homeworld_first and homeworld_second keep their names and their
\* homeworld tags.
C17_HomeworldsStay ==
    [][/\ homeworld_first'.name = homeworld_first.name
       /\ homeworld_first'.is_homeworld_for = homeworld_first.is_homeworld_for
       /\ homeworld_second'.name = homeworld_second.name
       /\ homeworld_second'.is_homeworld_for = homeworld_second.is_homeworld_for
      ]_vars

\* a ForgetSystem carrying the name of homeworld_first removed a discovered
\* system, after the pending powers were exhausted and the turn was passed,
\* and both homeworlds are there under their names and tags
C17_Witness ==
    /\ call.op = "ForgetSystem"
    /\ call.star_system_name = homeworld_first.name
    /\ result = Ok
    /\ pending_powers.tag = "Exhausted"
    /\ current_turn_status = "Passing"
    /\ homeworld_first.is_homeworld_for = "First"
    /\ homeworld_second.is_homeworld_for = "Second"
    /\ homeworld_first.name # homeworld_second.name

----------------------------------------------------------------------------
(* SpecFleet: UpdateFleet calls on up to two discovered systems, with       *)
(* counts that run up to the top of the u8 range on one entry at a time.    *)

FleetNames == {"Alpha", "Beta"}

FleetDiscoverSystem == CallDiscoverSystem(FleetNames, Stars)

FleetUpdateFleet ==
    \E name \in FleetNames, p \in Player, starship \in LedgerStarships,
       delta \in UpdateOneDelta :
        /\ delta = "AddOne" => AddOneIssued(FleetCount(name, p, starship))
        /\ UpdateFleet(name, p, starship, delta)
        /\ Called([op |-> "UpdateFleet", star_system_name |-> name,
                   player |-> p, starship |-> starship, delta |-> delta])

NextFleet == FleetDiscoverSystem \/ FleetUpdateFleet

SpecFleet == Init /\ [][NextFleet]_vars

Opponent(p) == IF p = "First" THEN "Second" ELSE "First"

FleetOf(system, p) ==
    IF p = "First" THEN system.fleet_first ELSE system.fleet_second

\* C20: an UpdateFleet on a discovered system applies the ledger primitive
\* to the fleet of the given player in that system (AddOne inserts at 1 or
\* increments, FleetCountOverflow at 255; RemoveOne decrements or removes
\* the key at 1, NoSuchStarships when absent) and leaves the other player's
\* fleet there and every other system as they were.
C20_UpdateFleetOnPlayersFleet ==
    [][(call'.op = "UpdateFleet" /\ Named(call'.star_system_name) # {})
        => \E k \in Named(call'.star_system_name) :
            LET p == call'.player
                ship == call'.starship
                before == discovered_systems[k]
                after == discovered_systems'[k]
                old == FleetOf(before, p)
                new == FleetOf(after, p)
                c == ShipsOf(before, p, ship)
            IN  /\ Len(discovered_systems') = Len(discovered_systems)
                /\ \A i \in 1..Len(discovered_systems) :
                        i # k => discovered_systems'[i] = discovered_systems[i]
                /\ after.name = before.name
                /\ after.center = before.center
                /\ after.is_homeworld_for = before.is_homeworld_for
                /\ FleetOf(after, Opponent(p)) = FleetOf(before, Opponent(p))
                /\ \A other \in (DOMAIN old \cup DOMAIN new) \ {ship} :
                        /\ other \in DOMAIN old /\ other \in DOMAIN new
                        /\ new[other] = old[other]
                /\ IF call'.delta = "AddOne"
                   THEN IF c = U8Max
                        THEN /\ result' = Into("UpdateFleetError", "FleetCountOverflow")
                             /\ new = old
                        ELSE /\ result'.tag = "Ok"
                             /\ ship \in DOMAIN new /\ new[ship] = c + 1
                   ELSE IF c = 0
                        THEN /\ result' = Into("UpdateFleetError", "NoSuchStarships")
                             /\ new = old
                        ELSE /\ result'.tag = "Ok"
                             /\ IF c = 1 THEN ship \notin DOMAIN new
                                ELSE ship \in DOMAIN new /\ new[ship] = c - 1]_vars

\* an AddOne on a fleet entry of 255 was refused with FleetCountOverflow
\* while the other player's fleet in that system and the other system hold
\* ships
C20_Witness ==
    /\ call.op = "UpdateFleet"
    /\ call.delta = "AddOne"
    /\ result = Into("UpdateFleetError", "FleetCountOverflow")
    /\ Len(discovered_systems) = 2
    /\ \E k \in Named(call.star_system_name) :
        /\ ShipsOf(discovered_systems[k], call.player, call.starship) = U8Max
        /\ FleetOf(discovered_systems[k], Opponent(call.player)) # EmptyMap
    /\ \A i \in 1..2 : HasShips(discovered_systems[i])

----------------------------------------------------------------------------
(* SpecFrame: all seven operations on the initial turn state, each call     *)
(* kept in `call`.                                                          *)

CallUpdateBank(pyramids) ==
    \E pyramid \in pyramids, delta \in UpdateOneDelta :
        /\ delta = "AddOne" => Count(bank, pyramid) < MaxCount
        /\ UpdateBank(pyramid, delta)
        /\ Called([op |-> "UpdateBank", pyramid |-> pyramid, delta |-> delta])

CallDestroyStar(names, selectors) ==
    \E name \in names, star \in selectors :
        /\ DestroyStar(name, star)
        /\ Called([op |-> "DestroyStar", star_system_name |-> name, star |-> star])

CallUpdatePendingPowers(ops) ==
    \E operation \in ops :
        /\ UpdatePendingPowers(operation)
        /\ Called([op |-> "UpdatePendingPowers", operation |-> operation])

CallSetCurrentTurnStatus ==
    \E new_status \in CurrentTurnStatus :
        /\ SetCurrentTurnStatus(new_status)
        /\ Called([op |-> "SetCurrentTurnStatus", new_status |-> new_status])

FrameDiscoverSystem == CallDiscoverSystem(SystemNames, Stars)

FrameForgetSystem == CallForgetSystem(SystemNames)

FrameUpdateFleet == CallUpdateFleet(SystemNames, Pyramids)

FrameUpdateBank == CallUpdateBank(Pyramids)

FrameDestroyStar == CallDestroyStar(SystemNames, Selectors)

FrameUpdatePendingPowers == CallUpdatePendingPowers(PendingOps({"Build"}))

FrameSetCurrentTurnStatus == CallSetCurrentTurnStatus

NextFrame ==
    \/ FrameDiscoverSystem
    \/ FrameForgetSystem
    \/ FrameUpdateFleet
    \/ FrameUpdateBank
    \/ FrameDestroyStar
    \/ FrameUpdatePendingPowers
    \/ FrameSetCurrentTurnStatus

SpecFrame == Init /\ [][NextFrame]_vars

NoChange == Into("SetCurrentTurnStatusError", "NoChange")

CanOnlyChangeFromMakingActions ==
    Into("SetCurrentTurnStatusError", "CanOnlyChangeFromMakingActions")

\* C25, as claimed: from Passing every SetCurrentTurnStatus call, whatever
\* its target, fails with CanOnlyChangeFromMakingActions and the status
\* stays Passing.
C25_FromPassingAlwaysCanOnlyChange ==
    [][(call'.op = "SetCurrentTurnStatus" /\ current_turn_status = "Passing")
        => /\ result' = CanOnlyChangeFromMakingActions
           /\ current_turn_status' = "Passing"]_vars

\* C25, amended: from Passing a SetCurrentTurnStatus call to MakingActions
\* or Resigning fails with CanOnlyChangeFromMakingActions, one to Passing
\* fails with NoChange, and in each case the status stays Passing.
C25_FromPassingEveryCallFails ==
    [][(call'.op = "SetCurrentTurnStatus" /\ current_turn_status = "Passing")
        => /\ result' = IF call'.new_status = "Passing"
                        THEN NoChange
                        ELSE CanOnlyChangeFromMakingActions
           /\ current_turn_status' = "Passing"]_vars

\* a call to Resigning was refused while the status is Passing
C25_Witness ==
    /\ call = [op |-> "SetCurrentTurnStatus", new_status |-> "Resigning"]
    /\ current_turn_status = "Passing"
    /\ result = CanOnlyChangeFromMakingActions

\* C26: setting the status to the status it already has fails with NoChange
\* for each of the three statuses and leaves it, and
\* CanOnlyChangeFromMakingActions is returned only when the target differs
\* from a current status other than MakingActions.
C26_NoChangeCheckedFirst ==
    [][call'.op = "SetCurrentTurnStatus"
        => /\ call'.new_status = current_turn_status
                => /\ result' = NoChange
                   /\ current_turn_status' = current_turn_status
           /\ result' = CanOnlyChangeFromMakingActions
                => /\ call'.new_status # current_turn_status
                   /\ current_turn_status # "MakingActions"]_vars

\* setting Resigning while the status is Resigning was answered NoChange
C26_Witness ==
    /\ call = [op |-> "SetCurrentTurnStatus", new_status |-> "Resigning"]
    /\ current_turn_status = "Resigning"
    /\ result = NoChange

\* C27: from MakingActions a SetCurrentTurnStatus to Passing or Resigning
\* succeeds and the status becomes the target; the same call made again
\* right after it fails with NoChange.
C27_SetFromMakingActions ==
    [][call'.op = "SetCurrentTurnStatus"
        => /\ (current_turn_status = "MakingActions"
               /\ call'.new_status \in {"Passing", "Resigning"})
                => /\ result'.tag = "Ok"
                   /\ current_turn_status' = call'.new_status
           /\ (call = call' /\ result.tag = "Ok")
                => /\ result' = NoChange
                   /\ current_turn_status' = current_turn_status]_vars

\* the call that set Resigning was made again and answered NoChange
C27_Witness ==
    /\ call = [op |-> "SetCurrentTurnStatus", new_status |-> "Resigning"]
    /\ current_turn_status = "Resigning"
    /\ result = NoChange
    /\ pending_powers = Nil
    /\ bank = EmptyMap
    /\ discovered_systems = << >>

\* C28: the only status changes are MakingActions to Passing and
\* MakingActions to Resigning, under every operation; once the status is
\* Passing or Resigning it never changes again.
C28_PassingResigningTerminal ==
    [][current_turn_status' # current_turn_status
        => /\ current_turn_status = "MakingActions"
           /\ current_turn_status' \in {"Passing", "Resigning"}
           /\ call'.op = "SetCurrentTurnStatus"]_vars

\* on a board with pieces in the bank and a discovered system, the status is
\* Passing and a call back to MakingActions was refused
C28_Witness ==
    /\ call = [op |-> "SetCurrentTurnStatus", new_status |-> "MakingActions"]
    /\ current_turn_status = "Passing"
    /\ result = CanOnlyChangeFromMakingActions
    /\ bank # EmptyMap
    /\ discovered_systems # << >>

\* the (system, player) pairs of the discovered list whose fleet the step
\* changes
ChangedFleets ==
    {e \in (1..Len(discovered_systems)) \X Player :
        FleetOf(discovered_systems'[e[1]], e[2])
            # FleetOf(discovered_systems[e[1]], e[2])}

\* the discovered systems whose center the step changes
ChangedCenters ==
    {i \in 1..Len(discovered_systems) :
        discovered_systems'[i].center # discovered_systems[i].center}

\* the step keeps the length of the discovered list and, in each system, the
\* name and the homeworld tag
SameSystems ==
    /\ Len(discovered_systems') = Len(discovered_systems)
    /\ \A i \in 1..Len(discovered_systems) :
        /\ discovered_systems'[i].name = discovered_systems[i].name
        /\ discovered_systems'[i].is_homeworld_for
                = discovered_systems[i].is_homeworld_for

\* C29: a successful operation changes its own target and nothing else:
\* DiscoverSystem and ForgetSystem the discovered list, UpdateFleet one
\* fleet, UpdateBank the bank, DestroyStar one system's center,
\* UpdatePendingPowers pending_powers, SetCurrentTurnStatus
\* current_turn_status; no operation changes the acting player.
C29_SuccessChangesOnlyTarget ==
    [][/\ player' = player
       /\ result'.tag = "Ok" =>
            CASE call'.op \in {"DiscoverSystem", "ForgetSystem"} ->
                    UNCHANGED <<bank, homeworld_first, homeworld_second,
                                pending_powers, current_turn_status>>
              [] call'.op = "UpdateFleet" ->
                    /\ UNCHANGED <<bank, homeworld_first, homeworld_second,
                                   pending_powers, current_turn_status>>
                    /\ SameSystems
                    /\ ChangedCenters = {}
                    /\ Cardinality(ChangedFleets) = 1
              [] call'.op = "UpdateBank" ->
                    UNCHANGED <<homeworld_first, homeworld_second,
                                discovered_systems, pending_powers,
                                current_turn_status>>
              [] call'.op = "DestroyStar" ->
                    /\ UNCHANGED <<bank, homeworld_first, homeworld_second,
                                   pending_powers, current_turn_status>>
                    /\ SameSystems
                    /\ ChangedFleets = {}
                    /\ Cardinality(ChangedCenters) = 1
              [] call'.op = "UpdatePendingPowers" ->
                    UNCHANGED <<bank, homeworld_first, homeworld_second,
                                discovered_systems, current_turn_status>>
              [] call'.op = "SetCurrentTurnStatus" ->
                    UNCHANGED <<bank, homeworld_first, homeworld_second,
                                discovered_systems, pending_powers>>
      ]_vars

\* the turn was passed with success on a state whose bank, discovered list
\* and pending powers all hold something
C29_Witness ==
    /\ call = [op |-> "SetCurrentTurnStatus", new_status |-> "Passing"]
    /\ result = Ok
    /\ bank # EmptyMap
    /\ pending_powers.tag = "Pending"
    /\ \E i \in 1..Len(discovered_systems) : HasShips(discovered_systems[i])

----------------------------------------------------------------------------
(* SpecPieces: the five operations on the game board, with two kinds of     *)
(* piece in the bank and in the fleets.                                     *)

PiecesDiscoverSystem == CallDiscoverSystem(SystemNames, Stars)

PiecesForgetSystem == CallForgetSystem(SystemNames)

PiecesUpdateFleet == CallUpdateFleet(SystemNames, LedgerPyramids)

PiecesUpdateBank == CallUpdateBank(LedgerPyramids)

PiecesDestroyStar == CallDestroyStar(SystemNames, {Single})

NextPieces ==
    \/ PiecesDiscoverSystem
    \/ PiecesForgetSystem
    \/ PiecesUpdateFleet
    \/ PiecesUpdateBank
    \/ PiecesDestroyStar

SpecPieces == Init /\ [][NextPieces]_vars

RECURSIVE ShipsIn(_, _)
\* the number of pieces of one kind in the fleets of a list of systems
ShipsIn(systems, piece) ==
    IF systems = << >> THEN 0
    ELSE Count(Head(systems).fleet_first, piece)
         + Count(Head(systems).fleet_second, piece)
         + ShipsIn(Tail(systems), piece)

\* the pieces of one kind in a bank and in all fleets of a board
PieceTotal(pyramids, first, second, discovered, piece) ==
    Count(pyramids, piece) + ShipsIn(<<first, second>> \o discovered, piece)

TotalBefore(piece) ==
    PieceTotal(bank, homeworld_first, homeworld_second,
               discovered_systems, piece)

TotalAfter(piece) ==
    PieceTotal(bank', homeworld_first', homeworld_second',
               discovered_systems', piece)

\* C22, as claimed: for every piece the number held in the bank plus in all
\* fleets is the same after an accepted operation as before it.
C22_PiecesConserved ==
    [][result'.tag = "Ok"
        => \A piece \in LedgerPyramids : TotalAfter(piece) = TotalBefore(piece)
      ]_vars

\* C22, amended: an accepted UpdateBank or UpdateFleet changes the total of
\* its own piece by exactly one, up for AddOne and down for RemoveOne, and
\* the total of no other piece; every other operation, and every rejected
\* one, leaves each total as it was.
C22_TotalsMoveByOne ==
    [][\A piece \in LedgerPyramids :
        TotalAfter(piece) =
            IF /\ result'.tag = "Ok"
               /\ \/ call'.op = "UpdateBank" /\ call'.pyramid = piece
                  \/ call'.op = "UpdateFleet" /\ call'.starship = piece
            THEN IF call'.delta = "AddOne"
                 THEN TotalBefore(piece) + 1
                 ELSE TotalBefore(piece) - 1
            ELSE TotalBefore(piece)
      ]_vars

\* an AddOne of a piece into a fleet was accepted while the bank holds none
\* of that piece and some of the other
C22_Witness ==
    /\ call.op = "UpdateFleet"
    /\ call.delta = "AddOne"
    /\ result = Ok
    /\ Count(bank, call.starship) = 0
    /\ \E piece \in LedgerPyramids : piece # call.starship /\ Count(bank, piece) > 0

----------------------------------------------------------------------------
(* SpecBank: UpdateBank calls with counts that run up to the top of the u8  *)
(* range on one piece at a time, on boards with and without a discovered    *)
(* system and its fleets.                                                   *)

BankUpdateBank ==
    \E pyramid \in LedgerPyramids, delta \in UpdateOneDelta :
        /\ delta = "AddOne" => AddOneIssued(Count(bank, pyramid))
        /\ UpdateBank(pyramid, delta)
        /\ Called([op |-> "UpdateBank", pyramid |-> pyramid, delta |-> delta])

BankDiscoverSystem == CallDiscoverSystem(SystemNames, Stars)

BankUpdateFleet == CallUpdateFleet(SystemNames, LedgerStarships)

NextBank ==
    \/ BankUpdateBank
    \/ BankDiscoverSystem
    \/ BankUpdateFleet

SpecBank == Init /\ [][NextBank]_vars

\* C21: UpdateBank applies the ledger primitive to the bank entry of the
\* piece (AddOne inserts at 1 or increments, BankCountOverflow at 255;
\* RemoveOne decrements or removes the key at 1, NoPyramidsInBank when
\* absent), whether or not a system is discovered, and changes no system.
C21_UpdateBankOnBank ==
    [][call'.op = "UpdateBank"
        => LET piece == call'.pyramid
               c == IF piece \in DOMAIN bank THEN bank[piece] ELSE 0
           IN  /\ UNCHANGED <<homeworld_first, homeworld_second,
                              discovered_systems>>
               /\ \A other \in (DOMAIN bank \cup DOMAIN bank') \ {piece} :
                    /\ other \in DOMAIN bank /\ other \in DOMAIN bank'
                    /\ bank'[other] = bank[other]
               /\ IF call'.delta = "AddOne"
                  THEN IF c = U8Max
                       THEN /\ result' = Into("UpdateBankError", "BankCountOverflow")
                            /\ bank' = bank
                       ELSE /\ result'.tag = "Ok"
                            /\ piece \in DOMAIN bank' /\ bank'[piece] = c + 1
                  ELSE IF c = 0
                       THEN /\ result' = Into("UpdateBankError", "NoPyramidsInBank")
                            /\ bank' = bank
                       ELSE /\ result'.tag = "Ok"
                            /\ IF c = 1 THEN piece \notin DOMAIN bank'
                               ELSE piece \in DOMAIN bank' /\ bank'[piece] = c - 1
      ]_vars

\* an AddOne on a bank entry of 255 was refused with BankCountOverflow on a
\* board without discovered systems, the bank holding another piece too
C21_Witness ==
    /\ call.op = "UpdateBank"
    /\ call.delta = "AddOne"
    /\ result = Into("UpdateBankError", "BankCountOverflow")
    /\ Count(bank, call.pyramid) = U8Max
    /\ Cardinality(DOMAIN bank) = 2
    /\ discovered_systems = << >>

----------------------------------------------------------------------------
(* SpecStars: DestroyStar calls on the board of the DestroyStar tests, a    *)
(* discovered system "Alpha" whose center the test sets, to which a system  *)
(* "Beta" may be added.                                                     *)

Centers ==
    {Empty}
    \cup {SingleStar(star) : star \in BoardStars}
    \cup {BinaryStar(alpha, beta) : alpha \in BoardStars, beta \in BoardStars}

InitStars ==
    /\ \E center \in Centers :
        TurnStateInit(EmptyMap,
                      <<StarSystem("Alpha", center, EmptyMap, EmptyMap, None)>>)
    /\ HistoryInit

StarsDestroyStar == CallDestroyStar(LedgerNames, Selectors)

StarsDiscoverSystem == CallDiscoverSystem({"Beta"}, BoardStars)

StarsUpdateFleet == CallUpdateFleet(SystemNames, LedgerStarships)

NextStars ==
    \/ StarsDestroyStar
    \/ StarsDiscoverSystem
    \/ StarsUpdateFleet

SpecStars == InitStars /\ [][NextStars]_vars

\* C23: a successful DestroyStar leaves, on a BinaryStar center, the
\* SingleStar of the star not named (beta for Binary(Alpha), alpha for
\* Binary(Beta)) and, on a SingleStar center with selector Single, Empty;
\* only the center of the named system changes.
C23_DestroyStarNewCenter ==
    [][(call'.op = "DestroyStar" /\ result'.tag = "Ok")
        => /\ UNCHANGED <<bank, homeworld_first, homeworld_second>>
           /\ Len(discovered_systems') = Len(discovered_systems)
           /\ \E k \in Named(call'.star_system_name) :
                LET old == discovered_systems[k].center
                    new == discovered_systems'[k].center
                IN  /\ \A i \in 1..Len(discovered_systems) :
                            i # k => discovered_systems'[i] = discovered_systems[i]
                    /\ discovered_systems'[k]
                            = [discovered_systems[k] EXCEPT !.center = new]
                    /\ IF call'.star = [tag |-> "Single"]
                       THEN old.tag = "SingleStar" /\ new = [tag |-> "Empty"]
                       ELSE /\ old.tag = "BinaryStar"
                            /\ new.tag = "SingleStar"
                            /\ call'.star.id = "Alpha" => new.star = old.beta
                            /\ call'.star.id = "Beta" => new.star = old.alpha
      ]_vars

\* Binary(Alpha) was destroyed in "Alpha", whose fleets hold ships and whose
\* center is now a single Blue Medium star, next to a second system
C23_Witness ==
    /\ call = [op |-> "DestroyStar", star_system_name |-> "Alpha",
               star |-> Binary("Alpha")]
    /\ result = Ok
    /\ Len(discovered_systems) = 2
    /\ discovered_systems[1].center = SingleStar(BlueMedium)
    /\ discovered_systems[2].center = SingleStar(RedSmall)
    /\ HasShips(discovered_systems[1])

\* C24: DestroyStar on an unknown name gives UnknownStarSystem; on an Empty
\* center CenterAlreadyEmpty for both selectors, the center staying Empty;
\* on a SingleStar center with a Binary selector NotABinarySystem; on a
\* BinaryStar center with selector Single NotASingleStarSystem.
C24_DestroyStarErrorByCenter ==
    [][call'.op = "DestroyStar"
        => /\ Named(call'.star_system_name) = {}
                => result' = [tag |-> "Err", error |-> "UnknownStarSystem"]
           /\ \A k \in Named(call'.star_system_name) :
                LET old == discovered_systems[k].center IN
                /\ old.tag = "Empty"
                    => /\ result' = Into("DestroyStarError", "CenterAlreadyEmpty")
                       /\ discovered_systems'[k].center = [tag |-> "Empty"]
                /\ (old.tag = "SingleStar" /\ call'.star.tag = "Binary")
                    => result' = Into("DestroyStarError", "NotABinarySystem")
                /\ (old.tag = "BinaryStar" /\ call'.star.tag = "Single")
                    => result' = Into("DestroyStarError", "NotASingleStarSystem")
      ]_vars

\* a Binary selector on an Empty center was answered CenterAlreadyEmpty
C24_Witness ==
    /\ call.op = "DestroyStar"
    /\ call.star.tag = "Binary"
    /\ result = Into("DestroyStarError", "CenterAlreadyEmpty")
    /\ \E k \in Named(call.star_system_name) :
            discovered_systems[k].center = Empty

----------------------------------------------------------------------------
(* SpecDispatch: operations applied directly, as the tests of each          *)
(* operation do, and through the dispatch union BasicOperation.             *)

\* engine/operations.rs: the variants of enum BasicOperation
BasicOperation ==
    {"DiscoverSystem", "UpdatePendingPowers", "UpdateFleet", "UpdateBank"}

\* the operations the callers of SpecDispatch build
DispatchOperations ==
    {[op |-> "DiscoverSystem", name |-> name, center_star |-> star] :
        name \in SystemNames, star \in Stars}
    \cup {[op |-> "ForgetSystem", star_system_name |-> name] :
        name \in SystemNames}
    \cup {[op |-> "UpdateFleet", star_system_name |-> name, player |-> p,
           starship |-> starship, delta |-> delta] :
        name \in SystemNames, p \in Player, starship \in Pyramids,
        delta \in UpdateOneDelta}
    \cup {[op |-> "UpdateBank", pyramid |-> pyramid, delta |-> delta] :
        pyramid \in Pyramids, delta \in UpdateOneDelta}
    \cup {[op |-> "DestroyStar", star_system_name |-> name, star |-> star] :
        name \in SystemNames, star \in Selectors}
    \cup {[op |-> "UpdatePendingPowers", operation |-> operation] :
        operation \in PendingOps({"Build"})}
    \cup {[op |-> "SetCurrentTurnStatus", new_status |-> new_status] :
        new_status \in CurrentTurnStatus}

\* an AddOne is built while the entry is below MaxCount
Issued(operation) ==
    CASE operation.op = "UpdateFleet" ->
            operation.delta = "AddOne" =>
                FleetCount(operation.star_system_name, operation.player,
                           operation.starship) < MaxCount
      [] operation.op = "UpdateBank" ->
            operation.delta = "AddOne" => Count(bank, operation.pyramid) < MaxCount
      [] OTHER -> TRUE

\* Apply::apply of the operation's own type
DirectApply(operation) ==
    CASE operation.op = "DiscoverSystem" ->
            DiscoverSystem(operation.name, operation.center_star)
      [] operation.op = "ForgetSystem" ->
            ForgetSystem(operation.star_system_name)
      [] operation.op = "UpdateFleet" ->
            UpdateFleet(operation.star_system_name, operation.player,
                        operation.starship, operation.delta)
      [] operation.op = "UpdateBank" ->
            UpdateBank(operation.pyramid, operation.delta)
      [] operation.op = "DestroyStar" ->
            DestroyStar(operation.star_system_name, operation.star)
      [] operation.op = "UpdatePendingPowers" ->
            UpdatePendingPowers(operation.operation)
      [] operation.op = "SetCurrentTurnStatus" ->
            SetCurrentTurnStatus(operation.new_status)

\* Apply::apply of BasicOperation, as enum_dispatch generates it: a match
\* over the variants that calls apply of the wrapped operation
apply(operation) ==
    /\ operation.op \in BasicOperation
    /\ CASE operation.op = "DiscoverSystem" ->
                DiscoverSystem(operation.name, operation.center_star)
         [] operation.op = "UpdatePendingPowers" ->
                UpdatePendingPowers(operation.operation)
         [] operation.op = "UpdateFleet" ->
                UpdateFleet(operation.star_system_name, operation.player,
                            operation.starship, operation.delta)
         [] operation.op = "UpdateBank" ->
                UpdateBank(operation.pyramid, operation.delta)

DispatchDirect ==
    \E operation \in DispatchOperations :
        /\ Issued(operation)
        /\ DirectApply(operation)
        /\ Called(operation)

DispatchThroughUnion ==
    \E operation \in DispatchOperations :
        /\ Issued(operation)
        /\ apply(operation)
        /\ Called(operation)

NextDispatch == DispatchDirect \/ DispatchThroughUnion

SpecDispatch == Init /\ [][NextDispatch]_vars

\* C30: each of the seven operation types is a variant of the dispatch
\* union, and applying an operation through the dispatch gives the result
\* and the state change of applying it directly: every application of an
\* operation is also a step of the dispatch on that operation.
C30_EveryOperationThroughDispatch ==
    [][apply(call')]_vars

----------------------------------------------------------------------------
(* SpecPending: the power and the counts of the pending powers.             *)

\* C31: when UseOne consumes the last use, the Exhausted value carries the
\* power that Set granted and the original_count, for each of the four
\* powers; the power is not replaced by the default Build.
C31_ExhaustedCarriesPower ==
    \A p \in Power, n \in 1..MaxSetCount :
        pp_calls = <<Set(p, n)>> \o UseOnes(n) =>
            pending_powers = [tag |-> "Exhausted", power |-> p,
                              original_count |-> n]

\* the last of two uses of Move was consumed and Move is the exhausted power
C31_Witness ==
    /\ pp_calls = <<Set("Move", 2), UseOne, UseOne>>
    /\ result = Ok
    /\ pending_powers = Exhausted("Move", 2)

\* the operation of the step, when the step is a recorded call
LastCall == pp_calls'[Len(pp_calls')]

\* C32: a Pending value has 1 <= count <= original_count; a successful Set
\* arms count and original_count with its count, and a successful UseOne
\* changes neither power nor original_count, so original_count is the count
\* of the Set that armed the power.
C32_PendingCounts ==
    [][Len(pp_calls') = Len(pp_calls) + 1 =>
        /\ pending_powers'.tag = "Pending" =>
            /\ 1 <= pending_powers'.count
            /\ pending_powers'.count <= pending_powers'.original_count
        /\ (LastCall.tag = "Set" /\ result'.tag = "Ok") =>
            /\ pending_powers'.tag = "Pending"
            /\ pending_powers'.power = LastCall.power
            /\ pending_powers'.count = LastCall.count
            /\ pending_powers'.original_count = LastCall.count
        /\ (LastCall.tag = "UseOne" /\ result'.tag = "Ok") =>
            /\ pending_powers'.power = pending_powers.power
            /\ pending_powers'.original_count = pending_powers.original_count
      ]_vars

\* one of two uses of Trade was consumed: count 1 of original_count 2
C32_Witness ==
    /\ pp_calls = <<Set("Trade", 2), UseOne>>
    /\ result = Ok
    /\ pending_powers = Pending("Trade", 1, 2)

----------------------------------------------------------------------------
(* SpecSystems: the names of the discovered list.                           *)

\* the names of the list are pairwise distinct
DistinctNames(systems) ==
    \A i, j \in 1..Len(systems) :
        systems[i].name = systems[j].name => i = j

\* C33: starting from an empty discovered list the names of the discovered
\* systems stay pairwise distinct, and DiscoverSystem reports a duplicate
\* exactly when the name is in the discovered list: the name of a fixed
\* homeworld that is not in the list is accepted.
C33_DiscoveredNamesDistinct ==
    [][/\ DistinctNames(discovered_systems')
       /\ call'.op = "DiscoverSystem" =>
            IF Discovered(call'.name)
            THEN result' = DuplicatedStarSystemName(call'.name)
            ELSE /\ result' = Ok
                 /\ position(discovered_systems', call'.name)
                        = Len(discovered_systems) + 1
      ]_vars

\* a full list of three distinct names, the last discovered one carrying the
\* name of the first homeworld
C33_Witness ==
    /\ Len(discovered_systems) = MaxSystems
    /\ DistinctNames(discovered_systems)
    /\ call = [op |-> "DiscoverSystem", name |-> homeworld_first.name,
               center_star |-> RedSmall]
    /\ result = Ok
    /\ discovered_systems[MaxSystems].name = homeworld_first.name

----------------------------------------------------------------------------
(* SpecFrame: the centers of the discovered systems.                        *)

CenterTags(systems) == {systems[i].center.tag : i \in 1..Len(systems)}

CenterOf(systems, name) == systems[position(systems, name)].center

\* C34: from the initial state no discovered system has a BinaryStar center;
\* a system is discovered with a SingleStar center, and a center changes only
\* from SingleStar to Empty; DestroyStar with a Binary selector never
\* succeeds, and DestroyStar Single on a system whose star DestroyStar Single
\* has taken fails with CenterAlreadyEmpty.
C34_NoBinaryCenter ==
    [][/\ "BinaryStar" \notin CenterTags(discovered_systems')
       /\ (call'.op = "DiscoverSystem" /\ result' = Ok) =>
            /\ discovered_systems'[Len(discovered_systems')].center.tag
                    = "SingleStar"
            /\ \A i \in 1..Len(discovered_systems) :
                    discovered_systems'[i] = discovered_systems[i]
       /\ call'.op \notin {"DiscoverSystem", "ForgetSystem"} =>
            /\ Len(discovered_systems') = Len(discovered_systems)
            /\ \A i \in 1..Len(discovered_systems) :
                    discovered_systems'[i].center # discovered_systems[i].center
                        => /\ discovered_systems[i].center.tag = "SingleStar"
                           /\ discovered_systems'[i].center = Empty
       /\ (call'.op = "DestroyStar" /\ call'.star.tag = "Binary") =>
            result'.tag # "Ok"
       /\ (call'.op = "DestroyStar" /\ call'.star = Single
           /\ Discovered(call'.star_system_name)) =>
            /\ CenterOf(discovered_systems', call'.star_system_name) = Empty
            /\ CenterOf(discovered_systems, call'.star_system_name) = Empty
                    => result' = Into("DestroyStarError", "CenterAlreadyEmpty")
            /\ (call = call' /\ result = Ok) =>
                    result' = Into("DestroyStarError", "CenterAlreadyEmpty")
      ]_vars

\* DestroyStar Single on "Alpha" found the center already empty
C34_Witness ==
    /\ call = [op |-> "DestroyStar", star_system_name |-> "Alpha",
               star |-> Single]
    /\ result = Into("DestroyStarError", "CenterAlreadyEmpty")
    /\ Discovered("Alpha")
    /\ CenterOf(discovered_systems, "Alpha") = Empty

----------------------------------------------------------------------------
(* SpecTally: UpdateBank on the bank and UpdateFleet on the fleets of       *)
(* "Alpha" from the initial state, the successful AddOne and RemoveOne of   *)
(* every entry counted in `tally`. RedSmall is the piece whose bank count   *)
(* the callers build up to the u8 limit, which they do while no system is   *)
(* discovered; they discover "Alpha" while the bank holds at most MaxCount  *)
(* of it.                                                                   *)

\* the callers' choice of delta for an entry of that count and tally
TallyIssued(entry, count, tall, delta) ==
    IF delta = "AddOne"
    THEN tall \/ count < MaxCount
    ELSE entry.removed < MaxRemoved \/ count = 0

\* the successful AddOne and RemoveOne counted under key
TallyOf(entries, key) ==
    IF key \in DOMAIN entries THEN entries[key] ELSE [added |-> 0, removed |-> 0]

\* one more successful delta under key
Counted(entries, key, delta) ==
    LET entry == TallyOf(entries, key) IN
    Insert(entries, key,
           IF delta = "AddOne"
           THEN [entry EXCEPT !.added = @ + 1]
           ELSE [entry EXCEPT !.removed = @ + 1])

Tallied(new_tally) ==
    /\ tally' = new_tally
    /\ SawExhausted
    /\ UNCHANGED <<set_ok_count, pp_calls, streak, call, prior>>

TallyUpdateBank ==
    \E pyramid \in LedgerPyramids, delta \in UpdateOneDelta :
        /\ TallyIssued(TallyOf(tally.bank, pyramid), Count(bank, pyramid),
                       pyramid = RedSmall /\ discovered_systems = << >>, delta)
        /\ UpdateBank(pyramid, delta)
        /\ Tallied(IF result' = Ok
                   THEN [tally EXCEPT !.bank = Counted(@, pyramid, delta)]
                   ELSE tally)

TallyUpdateFleet ==
    \E p \in Player, starship \in LedgerStarships, delta \in UpdateOneDelta :
        /\ TallyIssued(TallyOf(tally.fleet, <<p, starship>>),
                       FleetCount("Alpha", p, starship), FALSE, delta)
        /\ UpdateFleet("Alpha", p, starship, delta)
        /\ Tallied(IF result' = Ok
                   THEN [tally EXCEPT !.fleet = Counted(@, <<p, starship>>, delta)]
                   ELSE tally)

\* a system that is discovered starts with fleets nothing was added to
TallyDiscoverSystem ==
    \E star \in Stars :
        /\ Count(bank, RedSmall) <= MaxCount
        /\ DiscoverSystem("Alpha", star)
        /\ Tallied(IF result' = Ok
                   THEN [tally EXCEPT !.fleet = NoneTallied.fleet]
                   ELSE tally)

\* the fleets of a system end with the system
TallyForgetSystem ==
    /\ ForgetSystem("Alpha")
    /\ Tallied(IF result' = Ok
               THEN [tally EXCEPT !.fleet = NoneTallied.fleet]
               ELSE tally)

NextTally ==
    \/ TallyUpdateBank
    \/ TallyUpdateFleet
    \/ TallyDiscoverSystem
    \/ TallyForgetSystem

SpecTally == Init /\ [][NextTally]_vars

\* the ledger stores under key the successful AddOne less the successful
\* RemoveOne of the entry, and nothing when they are as many
StoresNet(map, key, entry) ==
    /\ Count(map, key) = entry.added - entry.removed
    /\ key \notin DOMAIN map <=> entry.added = entry.removed

\* C35: after any sequence of UpdateBank calls on an initially empty bank the
\* stored count of every piece is the number of successful AddOne less the
\* number of successful RemoveOne on it, the piece being absent exactly when
\* the difference is 0; the same holds of every (player, starship) entry of
\* a system's fleets under UpdateFleet for as long as the system exists.
C35_CountIsNetOfSuccesses ==
    /\ \A pyramid \in Pyramid : StoresNet(bank, pyramid, TallyOf(tally.bank, pyramid))
    /\ \A i \in 1..Len(discovered_systems), p \in Player, starship \in Pyramid :
            StoresNet(fleet(discovered_systems[i], p), starship,
                      TallyOf(tally.fleet, <<p, starship>>))

\* the bank holds one RedSmall after two AddOne and one RemoveOne and has
\* lost its BlueMedium; Second's fleet at "Alpha" holds the starship added to it
C35_Witness ==
    /\ TallyOf(tally.bank, RedSmall) = [added |-> 2, removed |-> 1]
    /\ bank = Insert(EmptyMap, RedSmall, 1)
    /\ TallyOf(tally.bank, BlueMedium) = [added |-> 1, removed |-> 1]
    /\ Discovered("Alpha")
    /\ TallyOf(tally.fleet, <<"Second", RedSmall>>) = [added |-> 1, removed |-> 0]
    /\ FleetCount("Alpha", "Second", RedSmall) = 1
    /\ FleetCount("Alpha", "First", RedSmall) = 0

\* the bank has refused the 256th RedSmall: 255 successful AddOne, 255 stored
C35_WitnessOverflow ==
    /\ result = Into("UpdateBankError", "BankCountOverflow")
    /\ TallyOf(tally.bank, RedSmall) = [added |-> U8Max, removed |-> 0]
    /\ bank[RedSmall] = U8Max

----------------------------------------------------------------------------
(* SpecPairs: two calls in a row on a bank and a board drawn from those the *)
(* operations build, the call before the last and the boards the last two  *)
(* calls were made on kept in `prior`, the last call in `call`.             *)

\* counts of First's starship at "Alpha" the boards are drawn with
PairFleetCounts == {0, 1, U8Max - 1}

\* the discovered lists the pairs start from
PairBoards ==
    {<< >>, <<StarSystem("Beta", SingleStar(BlueMedium), EmptyMap, EmptyMap, None)>>}
    \cup {<<StarSystem("Beta", SingleStar(BlueMedium), EmptyMap, EmptyMap, None),
            StarSystem("Alpha", SingleStar(RedSmall),
                       LedgerOf([k \in LedgerStarships |-> c]), EmptyMap, None)>>
          : c \in PairFleetCounts}

InitPairs ==
    /\ \E counts \in [LedgerPyramids -> StreakCounts], systems \in PairBoards :
            TurnStateInit(LedgerOf(counts), systems)
    /\ HistoryInit

\* the ledgers and the list of the board
Ledgers == [bank |-> bank, discovered_systems |-> discovered_systems]

\* `prior` after a call: the call made before it and what that returned, the
\* board the call was made on (last) and the board the call before it was
\* made on (pair)
Paired(c) ==
    /\ prior.n < MaxPairCalls
    /\ call' = c
    /\ prior' = [n |-> prior.n + 1, call |-> call, result |-> result,
                 last |-> Ledgers,
                 pair |-> IF prior.n = 0 THEN Ledgers ELSE prior.last]
    /\ SawExhausted
    /\ UNCHANGED <<set_ok_count, pp_calls, streak, tally>>

PairsUpdateBank ==
    \E pyramid \in LedgerPyramids, delta \in UpdateOneDelta :
        /\ UpdateBank(pyramid, delta)
        /\ Paired([op |-> "UpdateBank", pyramid |-> pyramid, delta |-> delta])

PairsUpdateFleet ==
    \E p \in Player, starship \in LedgerStarships, delta \in UpdateOneDelta :
        /\ UpdateFleet("Alpha", p, starship, delta)
        /\ Paired([op |-> "UpdateFleet", star_system_name |-> "Alpha",
                   player |-> p, starship |-> starship, delta |-> delta])

PairsDiscoverSystem ==
    \E name \in BoardNames, star \in Stars :
        /\ DiscoverSystem(name, star)
        /\ Paired([op |-> "DiscoverSystem", name |-> name, center_star |-> star])

PairsForgetSystem ==
    \E name \in BoardNames :
        /\ ForgetSystem(name)
        /\ Paired([op |-> "ForgetSystem", star_system_name |-> name])

NextPairs ==
    \/ PairsUpdateBank
    \/ PairsUpdateFleet
    \/ PairsDiscoverSystem
    \/ PairsForgetSystem

SpecPairs == InitPairs /\ [][NextPairs]_vars

\* the other delta
Inverse(delta) == IF delta = "AddOne" THEN "RemoveOne" ELSE "AddOne"

\* the last two calls are a pair: the first returned Ok and the second is
\* the first with the other delta
UndidLastCall ==
    /\ prior.n >= 2
    /\ prior.result = Ok
    /\ prior.call.op \in {"UpdateBank", "UpdateFleet"}
    /\ call = [prior.call EXCEPT !.delta = Inverse(@)]

\* C36: ledger round trip: a successful AddOne followed by RemoveOne on the
\* same key, and a successful RemoveOne followed by AddOne on the same key,
\* leave the ledger (the bank, a fleet) with the keys and the counts it had
\* before the pair, the second call succeeding too; this includes a key that
\* was absent before AddOne and a count of 1 before RemoveOne.
C36_LedgerRoundTrip ==
    UndidLastCall =>
        /\ result = Ok
        /\ Ledgers = prior.pair

\* RemoveOne took the last RedSmall out of the bank, and AddOne put it back
C36_Witness ==
    /\ UndidLastCall
    /\ prior.call = [op |-> "UpdateBank", pyramid |-> RedSmall,
                     delta |-> "RemoveOne"]
    /\ prior.pair.bank[RedSmall] = 1
    /\ RedSmall \notin DOMAIN prior.last.bank
    /\ bank[RedSmall] = 1
    /\ BlueMedium \in DOMAIN bank

\* AddOne gave Second's fleet at "Alpha" a starship it did not hold, and
\* RemoveOne took it away: the fleet is vacant again
C36_WitnessFleet ==
    /\ UndidLastCall
    /\ prior.call = [op |-> "UpdateFleet", star_system_name |-> "Alpha",
                     player |-> "Second", starship |-> RedSmall,
                     delta |-> "AddOne"]
    /\ ShipsOf(prior.pair.discovered_systems[2], "Second", RedSmall) = 0
    /\ ShipsOf(prior.last.discovered_systems[2], "Second", RedSmall) = 1
    /\ FleetCount("Alpha", "Second", RedSmall) = 0
    /\ FleetCount("Alpha", "First", RedSmall) = U8Max - 1

\* the name is in no system of the list
Unlisted(systems, name) == position(systems, name) = 0

\* the last two calls are DiscoverSystem of a name that was not in the list
\* and ForgetSystem of that name
ForgotLastDiscovered ==
    /\ prior.n >= 2
    /\ prior.call.op = "DiscoverSystem"
    /\ Unlisted(prior.pair.discovered_systems, prior.call.name)
    /\ call = [op |-> "ForgetSystem", star_system_name |-> prior.call.name]

\* C37: a name is reserved only while its system exists: DiscoverSystem of a
\* name that is not in the discovered list succeeds, ForgetSystem of that
\* name right after it succeeds and leaves the list as it was before the
\* pair; a ForgetSystem that succeeds takes the name out of the list, and
\* DiscoverSystem of a name forgotten by the call before it succeeds.
C37_NameReservedWhileListed ==
    /\ (prior.n >= 1 /\ call.op = "DiscoverSystem"
        /\ Unlisted(prior.last.discovered_systems, call.name)) =>
            /\ result = Ok
            /\ ~Unlisted(discovered_systems, call.name)
    /\ (prior.n >= 1 /\ call.op = "ForgetSystem" /\ result = Ok) =>
            Unlisted(discovered_systems, call.star_system_name)
    /\ ForgotLastDiscovered =>
            /\ prior.result = Ok
            /\ result = Ok
            /\ discovered_systems = prior.pair.discovered_systems
    /\ (prior.n >= 2 /\ prior.call.op = "ForgetSystem" /\ prior.result = Ok
        /\ call.op = "DiscoverSystem"
        /\ call.name = prior.call.star_system_name) =>
            result = Ok

\* "Alpha" was discovered next to "Beta" and forgotten again
C37_Witness ==
    /\ ForgotLastDiscovered
    /\ prior.call.name = "Alpha"
    /\ Len(prior.last.discovered_systems) = 2
    /\ prior.last.discovered_systems[2].name = "Alpha"
    /\ Len(discovered_systems) = 1
    /\ discovered_systems[1].name = "Beta"

\* "Beta" was forgotten and discovered again
C37_WitnessRediscovered ==
    /\ prior.n >= 2
    /\ prior.call = [op |-> "ForgetSystem", star_system_name |-> "Beta"]
    /\ prior.result = Ok
    /\ prior.last.discovered_systems = << >>
    /\ call.op = "DiscoverSystem"
    /\ call.name = "Beta"
    /\ result = Ok
    /\ Len(discovered_systems) = 1

====
